---------------------------- MODULE Spec2Model ----------------------------
(***************************************************************************)
(* A model of the workout tracker's REST API (src/server/index.js): the    *)
(* PostgreSQL tables as sets of rows, and one action per route handler.    *)
(* A handler that runs on one checked-out client between BEGIN and COMMIT  *)
(* is one atomic action; a handler that issues its statements through      *)
(* pool.query is atomic only when requests are served one at a time, and   *)
(* is a sequence of one-statement steps in the concurrent specification.   *)
(***************************************************************************)
EXTENDS Integers, Sequences, FiniteSets

\* ------------------------------------------------------------------ bounds
\* Largest serial id handed out per table (guards stop the counters there).
MaxLinkId == 3
\* Longest sets[] array of a POST /api/sets/bulk body.
MaxSets == 2
\* Largest exercise_sets id.
MaxSetId == 3
\* Largest workout_plans id and workout_plan_exercises id.
MaxPlanId == 2
MaxPlanExId == 3
\* Requests started in the concurrent specification.
MaxRequests == 2
\* Largest workout_sessions id.
MaxSessionId == 2
\* Largest workout_calendar id.
MaxCalendarId == 2
\* Set rows the runner shows per exercise.
RunnerSets == 2

\* SQL NULL in an integer column, and JavaScript's NaN.
NULL == -1
NaN == -2

VARIABLES
    exercises,                  \* table exercises: [id, name]
    workout_templates,          \* table workout_templates: [id, name]
    workout_template_exercises, \* [id, workout_template_id, exercise_id, sort_order]
    workout_plans,              \* [id, name, base_template_id]
    workout_plan_exercises,     \* [id, plan_id, exercise_id, sort_order, target_sets, target_reps, target_weight]
    workout_sessions,           \* [id, workout_template_id, plan_id, performed_on]
    exercise_sets,              \* [id, session_id, exercise_id, set_number, weight, reps, rpe]
    seq,                        \* the tables' serial sequences (never rolled back)
    req,                        \* the last request: its route and inputs
    res,                        \* the last response: [status, body]
    pre,                        \* the tables as they were when the last request arrived
    inflight,                   \* requests being served concurrently: id -> handler position and locals
    workout_calendar,           \* table workout_calendar: [id, planned_on, workout_plan_id]
    runner                      \* the client's workout runner (React state of App)

vars == <<exercises, workout_templates, workout_template_exercises, workout_plans,
          workout_plan_exercises, workout_sessions, exercise_sets, seq, req, res, pre,
          inflight, workout_calendar, runner>>

tables == <<exercises, workout_templates, workout_template_exercises, workout_plans,
            workout_plan_exercises, workout_sessions, exercise_sets, workout_calendar>>

\* The committed contents of every table.
Snapshot ==
    [exercises |-> exercises,
     workout_templates |-> workout_templates,
     workout_template_exercises |-> workout_template_exercises,
     workout_plans |-> workout_plans,
     workout_plan_exercises |-> workout_plan_exercises,
     workout_sessions |-> workout_sessions,
     exercise_sets |-> exercise_sets,
     workout_calendar |-> workout_calendar]

\* ----------------------------------------------------------------- helpers
Max(S) == CHOOSE x \in S : \A y \in S : y <= x
Min(S) == CHOOSE x \in S : \A y \in S : x <= y

\* All orders in which a query may return the rows S.
Perms(S) ==
    {f \in [1..Cardinality(S) -> S] : \A x \in S : \E i \in 1..Cardinality(S) : f[i] = x}

\* "order by sort_order asc": ties come back in either order.
OrderBySortOrder(S) ==
    {f \in Perms(S) : \A i, j \in 1..Cardinality(S) : i < j => f[i].sort_order <= f[j].sort_order}

\* asInt(v): null, undefined and "" give null; 0 is falsy for the callers' checks.
asInt(v) == IF v = NaN THEN NULL ELSE v
Falsy(v) == v = NULL \/ v = 0 \/ v = NaN

TemplateIds == {t.id : t \in workout_templates}
ExerciseIds == {e.id : e \in exercises}

\* The rows of one template.
LinksOf(rows, t) == {r \in rows : r.workout_template_id = t}

\* getWorkoutTemplate: null when the template is absent, else its exercises
\* (joined with exercises) as (exercise_id, sort_order) pairs.
getWorkoutTemplate(rows, t) ==
    IF t \notin TemplateIds THEN {}
    ELSE {[exercise_id |-> r.exercise_id, sort_order |-> r.sort_order] :
            r \in {x \in LinksOf(rows, t) : x.exercise_id \in ExerciseIds}}

\* ------------------------------------------------- template exercise links
\* select coalesce(max(sort_order), 0)
MaxSortOrder(rows, t) ==
    IF LinksOf(rows, t) = {} THEN 0 ELSE Max({r.sort_order : r \in LinksOf(rows, t)})

\* The sort_order given to an added exercise.
NextSortOrder(max) == max + 1

\* delete from workout_template_exercises where workout_template_id = t and exercise_id = e
DeleteLink(rows, t, e) ==
    {r \in rows : ~(r.workout_template_id = t /\ r.exercise_id = e)}

\* The renumbering loop: the i-th selected row gets sort_order i.
RenumberedMutant(rows, sq) == rows
Renumbered(rows, sq) ==
    {IF \E i \in DOMAIN sq : sq[i].id = r.id
       THEN [r EXCEPT !.sort_order = CHOOSE i \in DOMAIN sq : sq[i].id = r.id]
       ELSE r : r \in rows}

\* The neighbour query of a move: the rows it may return (limit 1).
NeighborMutant(rows, t, curOrder, direction) ==
    LET cand == IF direction = "up"
                  THEN {r \in LinksOf(rows, t) : r.sort_order < curOrder}
                  ELSE {r \in LinksOf(rows, t) : r.sort_order > curOrder}
    IN IF direction = "up"
         THEN {r \in cand : \A o \in cand : o.sort_order >= r.sort_order}
         ELSE {r \in cand : \A o \in cand : o.sort_order <= r.sort_order}
Neighbor(rows, t, curOrder, direction) ==
    LET cand == IF direction = "up"
                  THEN {r \in LinksOf(rows, t) : r.sort_order < curOrder}
                  ELSE {r \in LinksOf(rows, t) : r.sort_order > curOrder}
    IN IF direction = "up"
         THEN {r \in cand : \A o \in cand : o.sort_order <= r.sort_order}
         ELSE {r \in cand : \A o \in cand : o.sort_order >= r.sort_order}

\* update workout_template_exercises set sort_order = o where id = i
SetSortOrder(rows, i, o) ==
    {IF r.id = i THEN [r EXCEPT !.sort_order = o] ELSE r : r \in rows}

Respond(route, input, status, body) ==
    /\ req' = [route |-> route, input |-> input]
    /\ res' = [status |-> status, body |-> body]
    /\ pre' = Snapshot

\* POST /api/workout-templates/:id/exercises, served alone.
AddExercise(t, e) ==
    /\ inflight = <<>>
    /\ LET exerciseId == asInt(e)
           route == "POST /api/workout-templates/:id/exercises"
           input == [id |-> t, exercise_id |-> e]
       IN IF Falsy(exerciseId)
            THEN /\ Respond(route, input, 400, {})
                 /\ UNCHANGED <<tables, seq, inflight, runner>>
          ELSE IF \E r \in LinksOf(workout_template_exercises, t) : r.exercise_id = exerciseId
            THEN /\ Respond(route, input, 409, {})
                 /\ UNCHANGED <<tables, seq, inflight, runner>>
          ELSE /\ seq.links < MaxLinkId
               /\ seq' = [seq EXCEPT !.links = @ + 1]
               /\ workout_template_exercises' = workout_template_exercises \cup
                     {[id |-> seq.links + 1, workout_template_id |-> t,
                       exercise_id |-> exerciseId,
                       sort_order |->
                         NextSortOrder(MaxSortOrder(workout_template_exercises, t))]}
               /\ Respond(route, input, 200,
                          getWorkoutTemplate(workout_template_exercises', t))
               /\ UNCHANGED <<exercises, workout_templates, workout_plans,
                              workout_plan_exercises, workout_sessions, exercise_sets,
                              inflight, workout_calendar, runner>>

\* DELETE /api/workout-templates/:id/exercises/:exerciseId, served alone.
RemoveExercise(t, e) ==
    /\ inflight = <<>>
    /\ LET deleted == DeleteLink(workout_template_exercises, t, e)
       IN \E sq \in OrderBySortOrder(LinksOf(deleted, t)) :
            /\ workout_template_exercises' = Renumbered(deleted, sq)
            /\ Respond("DELETE /api/workout-templates/:id/exercises/:exerciseId",
                       [id |-> t, exercise_id |-> e], 200,
                       getWorkoutTemplate(workout_template_exercises', t))
    /\ UNCHANGED <<exercises, workout_templates, workout_plans, workout_plan_exercises,
                   workout_sessions, exercise_sets, seq, inflight,
                   workout_calendar, runner>>

\* POST /api/workout-templates/:id/exercises/:exerciseId/move, served alone.
MoveExercise(t, e, direction) ==
    /\ inflight = <<>>
    /\ LET route == "POST /api/workout-templates/:id/exercises/:exerciseId/move"
           input == [id |-> t, exercise_id |-> e, direction |-> direction]
           cur == {r \in LinksOf(workout_template_exercises, t) : r.exercise_id = e}
       IN IF direction \notin {"up", "down"}
            THEN /\ Respond(route, input, 400, {})
                 /\ UNCHANGED workout_template_exercises
          ELSE IF cur = {}
            THEN /\ Respond(route, input, 404, {})
                 /\ UNCHANGED workout_template_exercises
          ELSE \E c \in cur :
                 LET neighbor == Neighbor(workout_template_exercises, t, c.sort_order, direction)
                 IN IF neighbor = {}
                      THEN /\ Respond(route, input, 200,
                                      getWorkoutTemplate(workout_template_exercises, t))
                           /\ UNCHANGED workout_template_exercises
                      ELSE \E nb \in neighbor :
                             /\ workout_template_exercises' =
                                  SetSortOrder(SetSortOrder(workout_template_exercises,
                                                            c.id, nb.sort_order),
                                               nb.id, c.sort_order)
                             /\ Respond(route, input, 200,
                                        getWorkoutTemplate(workout_template_exercises', t))
    /\ UNCHANGED <<exercises, workout_templates, workout_plans, workout_plan_exercises,
                   workout_sessions, exercise_sets, seq, inflight,
                   workout_calendar, runner>>

\* ------------------------------------------------------------ initial data
SeedExercises ==
    {[id |-> 1, name |-> "Squat"], [id |-> 2, name |-> "Bench"], [id |-> 3, name |-> "Row"]}
SeedTemplates == {[id |-> 1, name |-> "Push"], [id |-> 2, name |-> "Legs"]}

NoRequest == [route |-> "none", input |-> <<>>]
NoResponse == [status |-> 0, body |-> {}]

\* No handler of the runner is waiting for its save.
NoSave == [op |-> "none", sessionId |-> NULL, exId |-> 0, sets |-> <<>>, lastIdx |-> 0]

\* localStorage without the keys wt_activeSessionId, wt_activeWorkoutId and
\* wt_activeExerciseIndex (NULL: the key is not there).
NoKeys == [sessionId |-> NULL, workoutId |-> NULL, exerciseIndex |-> NULL]

\* The runner before a workout is started: no workout selected, no session,
\* index 0, no exercises, no set rows, no save status, no handler under way.
NoRunner ==
    [selectedWorkoutId |-> NULL, sessionId |-> NULL, exerciseIndex |-> 0, ls |-> NoKeys,
     runnerExercises |-> <<>>,
     setsByExercise |-> [e \in {x.id : x \in SeedExercises} |-> <<>>],
     saveStatusByExercise |-> [e \in {x.id : x \in SeedExercises} |-> "idle"],
     saving |-> NoSave, handler |-> "none"]

\* A fresh database holding the seed exercises and two empty templates.
Init ==
    /\ exercises = SeedExercises
    /\ workout_templates = SeedTemplates
    /\ workout_template_exercises = {}
    /\ workout_plans = {}
    /\ workout_plan_exercises = {}
    /\ workout_sessions = {}
    /\ exercise_sets = {}
    /\ seq = [links |-> 0, plans |-> 0, planex |-> 0, sets |-> 0, sessions |-> 0,
             calendar |-> 0]
    /\ workout_calendar = {}
    /\ runner = NoRunner
    /\ req = NoRequest
    /\ res = NoResponse
    /\ pre = Snapshot
    /\ inflight = <<>>

Directions == {"up", "down", "sideways"}

\* The template editor's requests, one at a time.
Next ==
    \/ \E t \in TemplateIds, e \in ExerciseIds \cup {0} : AddExercise(t, e)
    \/ \E t \in TemplateIds, e \in ExerciseIds : RemoveExercise(t, e)
    \/ \E t \in TemplateIds, e \in ExerciseIds, d \in Directions : MoveExercise(t, e, d)

Spec == Init /\ [][Next]_vars

\* ------------------------------------------------------------ logged sets
\* JSON values of a request body: null, a number or a string.
JsNull == [t |-> "null", n |-> 0, s |-> ""]
JsNum(n) == [t |-> "number", n |-> n, s |-> ""]
JsStr(s) == [t |-> "string", n |-> 0, s |-> s]

\* JavaScript's StringToNumber on the strings the model sends.
ParseDecimal(s) ==
    CASE s = "" -> 0
      [] s = "1" -> 1
      [] s = "2" -> 2
      [] s = "3" -> 3
      [] s = "50" -> 50
      [] OTHER -> NaN

\* Number(v)
Number(v) ==
    CASE v.t = "number" -> v.n
      [] v.t = "null" -> 0
      [] v.t = "string" -> ParseDecimal(v.s)

\* v === null ? null : Number(v)
NullableNumber(v) == IF v.t = "null" THEN NULL ELSE Number(v)

\* The row one element of sets[] is inserted as.
SetRowMutant(id, s, e, x) ==
    [id |-> id, session_id |-> s, exercise_id |-> e,
     set_number |-> Number(x.set_number), weight |-> Number(x.weight),
     reps |-> NullableNumber(x.reps), rpe |-> NullableNumber(x.rpe)]
SetRow(id, s, e, x) ==
    [id |-> id, session_id |-> s, exercise_id |-> e,
     set_number |-> Number(x.set_number), weight |-> NullableNumber(x.weight),
     reps |-> NullableNumber(x.reps), rpe |-> NullableNumber(x.rpe)]

\* $3::int rejects NaN: the insert statement throws.
InsertSetFails(x) == Number(x.set_number) = NaN

\* delete from exercise_sets where session_id = s and exercise_id = e
DeleteSets(rows, s, e) == {r \in rows : ~(r.session_id = s /\ r.exercise_id = e)}

\* ROLLBACK on the transaction's client: the tables as they were at BEGIN.
RolledBackMutant(before, attempted) == attempted
RolledBack(before, attempted) == before

\* The index of the first element of sets[] whose insert throws (0: none), when
\* statement number fault of the transaction is made to fail (1 is the delete,
\* i + 1 the insert of element i, Len + 2 the COMMIT; 0: none).
FirstFailedInsert(L, fault) ==
    LET bad == {i \in 1..Len(L) : InsertSetFails(L[i]) \/ fault = i + 1}
    IN IF bad = {} THEN 0 ELSE Min(bad)

RouteBulk == "POST /api/sets/bulk"

\* POST /api/sets/bulk: delete and inserts between BEGIN and COMMIT on one client.
BulkSets(s, e, isArray, L, fault) ==
    /\ inflight = <<>>
    /\ LET input == [session_id |-> s, exercise_id |-> e, isArray |-> isArray, sets |-> L,
                     fault |-> fault]
           deleted == DeleteSets(exercise_sets, s, e)
           failAt == IF fault = 1 THEN 1 ELSE FirstFailedInsert(L, fault)
           done == IF fault = 1 THEN 0 ELSE IF failAt = 0 THEN Len(L) ELSE failAt - 1
           attempted == IF fault = 1 THEN exercise_sets
                        ELSE deleted \cup {SetRow(seq.sets + i, s, e, L[i]) : i \in 1..done}
           threw == fault = 1 \/ failAt # 0 \/ fault = Len(L) + 2
       IN IF Falsy(s) \/ Falsy(e) \/ ~isArray
            THEN /\ Respond(RouteBulk, input, 400, [ok |-> FALSE, inserted |-> 0])
                 /\ UNCHANGED <<exercise_sets, seq>>
            ELSE /\ seq.sets + done <= MaxSetId
                 /\ seq' = [seq EXCEPT !.sets = @ + done]
                 /\ IF threw
                      THEN /\ exercise_sets' = RolledBack(exercise_sets, attempted)
                           /\ Respond(RouteBulk, input, 500, [ok |-> FALSE, inserted |-> 0])
                      ELSE /\ exercise_sets' = attempted
                           /\ Respond(RouteBulk, input, 200, [ok |-> TRUE, inserted |-> Len(L)])
    /\ UNCHANGED <<exercises, workout_templates, workout_template_exercises, workout_plans,
                   workout_plan_exercises, workout_sessions, inflight, workout_calendar>>

\* The elements a client may send in sets[]: numbers, numeric strings, a null
\* weight, and a set_number that is no number.
SetInputs ==
    {[set_number |-> JsNum(1), weight |-> JsNull, reps |-> JsNum(8), rpe |-> JsNull],
     [set_number |-> JsStr("2"), weight |-> JsStr("50"), reps |-> JsNull, rpe |-> JsNull],
     [set_number |-> JsStr("x"), weight |-> JsNum(50), reps |-> JsNum(8), rpe |-> JsNull]}

SetLists == UNION {[1..n -> SetInputs] : n \in 0..MaxSets}

SeedSessions ==
    {[id |-> 1, workout_template_id |-> 1, plan_id |-> NULL, performed_on |-> 1],
     [id |-> 2, workout_template_id |-> 2, plan_id |-> NULL, performed_on |-> 2]}

SessionIds == {x.id : x \in workout_sessions}
SetsOfSession(s) == {r \in exercise_sets : r.session_id = s}

\* Two sessions have been started and nothing is logged yet.
InitSets ==
    /\ exercises = SeedExercises
    /\ workout_templates = SeedTemplates
    /\ workout_template_exercises = {}
    /\ workout_plans = {}
    /\ workout_plan_exercises = {}
    /\ workout_sessions = SeedSessions
    /\ exercise_sets = {}
    /\ seq = [links |-> 0, plans |-> 0, planex |-> 0, sets |-> 0, sessions |-> 2,
             calendar |-> 0]
    /\ workout_calendar = {}
    /\ runner = NoRunner
    /\ req = NoRequest
    /\ res = NoResponse
    /\ pre = Snapshot
    /\ inflight = <<>>

\* Saving sets, one request at a time; any one statement may fail.
NextSets ==
    \/ \E p \in {<<1, 1>>, <<1, 2>>, <<2, 1>>}, L \in SetLists, fault \in 0..(MaxSets + 2) :
         fault <= Len(L) + 2 /\ BulkSets(p[1], p[2], TRUE, L, fault) /\ UNCHANGED runner
    \/ \E s \in SessionIds \cup {0}, e \in {0, 1} :
         BulkSets(s, e, s # 0 /\ e # 0, <<>>, 0) /\ UNCHANGED runner

SpecSets == InitSets /\ [][NextSets]_vars

\* ------------------------------------------------------ plans and sessions
PlanIds == {p.id : p \in workout_plans}

\* The rows of one plan.
PlanExercisesOf(rows, p) == {r \in rows : r.plan_id = p}

\* getWorkoutPlan: null (here the empty set) when the plan or its base template
\* is absent, else the plan's exercise rows joined with exercises.
getWorkoutPlan(planRows, exRows, p) ==
    IF ~\E x \in planRows : x.id = p /\ x.base_template_id \in TemplateIds THEN {}
    ELSE {r \in PlanExercisesOf(exRows, p) : r.exercise_id \in ExerciseIds}

\* name || `Plan`
PlanName(name) == IF name = "" THEN "Plan" ELSE name

\* The row a template exercise is copied to: default sets 3, reps "8", no weight.
PlanExerciseRowMutant(id, planId, row) ==
    [id |-> id, plan_id |-> planId, exercise_id |-> row.exercise_id,
     sort_order |-> 1, target_sets |-> 3, target_reps |-> 8,
     target_weight |-> NULL, notes |-> ""]
PlanExerciseRow(id, planId, row) ==
    [id |-> id, plan_id |-> planId, exercise_id |-> row.exercise_id,
     sort_order |-> row.sort_order, target_sets |-> 3, target_reps |-> 8,
     target_weight |-> NULL, notes |-> ""]

RouteCreatePlan == "POST /api/plans"

\* POST /api/plans, served alone: every statement goes through pool.query on its
\* own, so what ran before a failing statement stays.  Statement number fault
\* fails: 1 the plan insert, 2 the select of the template's exercises, 2 + i the
\* copy of exercise i, n + 3 getWorkoutPlan; 0 none.
CreatePlan(base, name, fault) ==
    /\ inflight = <<>>
    /\ LET base_template_id == asInt(base)
           input == [base_template_id |-> base, name |-> name, fault |-> fault]
           planId == seq.plans + 1
           planRow == [id |-> planId, name |-> PlanName(name),
                       base_template_id |-> base_template_id]
       IN IF Falsy(base_template_id)
            THEN /\ Respond(RouteCreatePlan, input, 400, {})
                 /\ UNCHANGED <<workout_plans, workout_plan_exercises, seq>>
          ELSE IF fault = 1
            THEN /\ Respond(RouteCreatePlan, input, 500, {})
                 /\ UNCHANGED <<workout_plans, workout_plan_exercises, seq>>
          ELSE \E templateExercises \in
                    OrderBySortOrder(LinksOf(workout_template_exercises, base_template_id)) :
                 LET n == Len(templateExercises)
                     done == IF fault = 0 \/ fault > n + 2 THEN n
                             ELSE IF fault = 2 THEN 0 ELSE fault - 3
                     copied == {PlanExerciseRow(seq.planex + i, planId, templateExercises[i]) :
                                  i \in 1..done}
                 IN /\ fault <= n + 3
                    /\ seq.plans < MaxPlanId
                    /\ seq.planex + done <= MaxPlanExId
                    /\ seq' = [seq EXCEPT !.plans = planId, !.planex = @ + done]
                    /\ workout_plans' = workout_plans \cup {planRow}
                    /\ workout_plan_exercises' = workout_plan_exercises \cup copied
                    /\ IF fault = 0
                         THEN Respond(RouteCreatePlan, input, 200,
                                      getWorkoutPlan(workout_plans', workout_plan_exercises',
                                                     planId))
                         ELSE Respond(RouteCreatePlan, input, 500, {})
    /\ UNCHANGED <<exercises, workout_templates, workout_template_exercises,
                   workout_sessions, exercise_sets, inflight, workout_calendar, runner>>

\* update workout_sessions set plan_id = null where plan_id = p
DetachSessionsMutant(rows, p) == {r \in rows : r.plan_id # p}
DetachSessions(rows, p) ==
    {IF r.plan_id = p THEN [r EXCEPT !.plan_id = NULL] ELSE r : r \in rows}

\* delete from workout_plan_exercises where plan_id = p
DeletePlanExercises(rows, p) == {r \in rows : r.plan_id # p}

\* delete from workout_plans where id = p
DeletePlanRow(rows, p) == {r \in rows : r.id # p}

RouteDeletePlan == "DELETE /api/plans/:id"

\* DELETE /api/plans/:id: three statements between BEGIN and COMMIT on one
\* client; statement number fault fails (4 is the COMMIT; 0 none).
DeletePlan(p, fault) ==
    /\ inflight = <<>>
    /\ LET planId == asInt(p)
           input == [id |-> p, fault |-> fault]
           attempted ==
             [sessions |-> IF fault = 1 THEN workout_sessions
                           ELSE DetachSessions(workout_sessions, planId),
              planex |-> IF fault \in {1, 2} THEN workout_plan_exercises
                         ELSE DeletePlanExercises(workout_plan_exercises, planId),
              plans |-> IF fault \in {1, 2, 3} THEN workout_plans
                        ELSE DeletePlanRow(workout_plans, planId)]
           before == [sessions |-> workout_sessions, planex |-> workout_plan_exercises,
                      plans |-> workout_plans]
           after == IF fault = 0 THEN attempted ELSE RolledBack(before, attempted)
       IN IF Falsy(planId)
            THEN /\ Respond(RouteDeletePlan, input, 400, [ok |-> FALSE])
                 /\ UNCHANGED <<workout_sessions, workout_plan_exercises, workout_plans>>
            ELSE /\ workout_sessions' = after.sessions
                 /\ workout_plan_exercises' = after.planex
                 /\ workout_plans' = after.plans
                 /\ IF fault = 0
                      THEN Respond(RouteDeletePlan, input, 200, [ok |-> TRUE])
                      ELSE Respond(RouteDeletePlan, input, 500, [ok |-> FALSE])
    /\ UNCHANGED <<exercises, workout_templates, workout_template_exercises,
                   exercise_sets, seq, inflight, workout_calendar, runner>>

RouteCreateSession == "POST /api/sessions"

\* POST /api/sessions, served alone: from a template or from a plan.
CreateSession(tmpl, plan, date) ==
    /\ inflight = <<>>
    /\ LET tmplIn == asInt(tmpl)
           planIn == asInt(plan)
           input == [workout_template_id |-> tmpl, plan_id |-> plan, performed_on |-> date]
           found == {x \in workout_plans : x.id = planIn}
       IN IF (Falsy(tmplIn) /\ Falsy(planIn)) \/ (~Falsy(tmplIn) /\ ~Falsy(planIn))
            THEN /\ Respond(RouteCreateSession, input, 400, {})
                 /\ UNCHANGED <<workout_sessions, seq>>
          ELSE IF ~Falsy(planIn) /\ found = {}
            THEN /\ Respond(RouteCreateSession, input, 404, {})
                 /\ UNCHANGED <<workout_sessions, seq>>
          ELSE LET templateId == IF ~Falsy(planIn)
                                   THEN asInt((CHOOSE x \in found : TRUE).base_template_id)
                                   ELSE tmplIn
                   planId == IF Falsy(planIn) THEN NULL ELSE planIn
               IN IF Falsy(templateId)
                    THEN /\ Respond(RouteCreateSession, input, 500, {})
                         /\ UNCHANGED <<workout_sessions, seq>>
                    ELSE /\ seq.sessions < MaxSessionId
                         /\ seq' = [seq EXCEPT !.sessions = @ + 1]
                         /\ workout_sessions' = workout_sessions \cup
                              {[id |-> seq.sessions + 1, workout_template_id |-> templateId,
                                plan_id |-> planId, performed_on |-> date]}
                         /\ Respond(RouteCreateSession, input, 200,
                                    {[session_id |-> seq.sessions + 1]})
    /\ UNCHANGED <<exercises, workout_templates, workout_template_exercises, workout_plans,
                   workout_plan_exercises, exercise_sets, inflight,
                   workout_calendar>>

\* select 1 from workout_template_exercises where exercise_id = id limit 1
UsedInWorkoutMutant(rows, id) == FALSE
UsedInWorkout(rows, id) == \E r \in rows : r.exercise_id = id

RouteDeleteExercise == "DELETE /api/exercises/:id"

\* DELETE /api/exercises/:id, served alone.
DeleteExercise(id) ==
    /\ inflight = <<>>
    /\ LET input == [id |-> id]
       IN IF UsedInWorkout(workout_template_exercises, asInt(id))
            THEN /\ Respond(RouteDeleteExercise, input, 409, [ok |-> FALSE])
                 /\ UNCHANGED exercises
            ELSE /\ exercises' = {x \in exercises : x.id # asInt(id)}
                 /\ Respond(RouteDeleteExercise, input, 200, [ok |-> TRUE])
    /\ UNCHANGED <<workout_templates, workout_template_exercises, workout_plans,
                   workout_plan_exercises, workout_sessions, exercise_sets, seq, inflight,
                   workout_calendar, runner>>

\* Template 1 holds Squat then Bench, template 2 holds Squat; Row is in no
\* template.
SeedLinks ==
    {[id |-> 1, workout_template_id |-> 1, exercise_id |-> 1, sort_order |-> 1],
     [id |-> 2, workout_template_id |-> 1, exercise_id |-> 2, sort_order |-> 2],
     [id |-> 3, workout_template_id |-> 2, exercise_id |-> 1, sort_order |-> 1]}

InitPlans ==
    /\ exercises = SeedExercises
    /\ workout_templates = SeedTemplates
    /\ workout_template_exercises = SeedLinks
    /\ workout_plans = {}
    /\ workout_plan_exercises = {}
    /\ workout_sessions = {}
    /\ exercise_sets = {}
    /\ seq = [links |-> 3, plans |-> 0, planex |-> 0, sets |-> 0, sessions |-> 0,
             calendar |-> 0]
    /\ workout_calendar = {}
    /\ runner = NoRunner
    /\ req = NoRequest
    /\ res = NoResponse
    /\ pre = Snapshot
    /\ inflight = <<>>

\* Plans made from templates and exercises deleted, one request at a time; any
\* one statement of a plan's creation may fail.
NextPlans ==
    \/ \E base \in TemplateIds \cup {0}, name \in {"", "A"}, fault \in 0..5 :
         CreatePlan(base, name, fault)
    \/ \E id \in ExerciseIds : DeleteExercise(id)

SpecPlans == InitPlans /\ [][NextPlans]_vars

\* Plans made, sessions started from them and logged, plans deleted, one request
\* at a time; any one statement of a plan's deletion may fail.
NextDeletePlan ==
    \/ \E base \in TemplateIds : CreatePlan(base, "", 0)
    \/ \E t \in {NULL, 1}, p \in {NULL} \cup (1..MaxPlanId) :
         CreateSession(t, p, 1) /\ UNCHANGED runner
    \/ \E s \in SessionIds, x \in SetInputs :
         /\ SetsOfSession(s) = {}
         /\ x.weight = JsNull
         /\ BulkSets(s, 1, TRUE, <<x>>, 0)
         /\ UNCHANGED runner
    \/ \E p \in 0..MaxPlanId, fault \in 0..4 : DeletePlan(p, fault)

SpecDeletePlan == InitPlans /\ [][NextDeletePlan]_vars

\* Template 1 holds Squat then Bench, template 2 is empty, no plan yet.
InitPlanCopy ==
    /\ exercises = SeedExercises
    /\ workout_templates = SeedTemplates
    /\ workout_template_exercises = {r \in SeedLinks : r.workout_template_id = 1}
    /\ workout_plans = {}
    /\ workout_plan_exercises = {}
    /\ workout_sessions = {}
    /\ exercise_sets = {}
    /\ seq = [links |-> 2, plans |-> 0, planex |-> 0, sets |-> 0, sessions |-> 0,
              calendar |-> 0]
    /\ workout_calendar = {}
    /\ runner = NoRunner
    /\ req = NoRequest
    /\ res = NoResponse
    /\ pre = Snapshot
    /\ inflight = <<>>

\* Plans made from templates that are edited before and after, one request at
\* a time.
NextPlanCopy ==
    \/ \E base \in TemplateIds : CreatePlan(base, "", 0)
    \/ \E t \in TemplateIds, e \in ExerciseIds : AddExercise(t, e)
    \/ \E t \in TemplateIds, e \in ExerciseIds : RemoveExercise(t, e)
    \/ \E t \in TemplateIds, e \in ExerciseIds, d \in {"up", "down"} : MoveExercise(t, e, d)

SpecPlanCopy == InitPlanCopy /\ [][NextPlanCopy]_vars

\* ---------------------------------------------- sessions and their runner
\* What a response body's error field holds: nothing, String(e.message || e),
\* a validation message, or (no JSON at all) the framework's own error page.
NoError == ""
Stringified == "String(e.message || e)"
Invalid == "invalid"
ErrorPage == "<html>"

\* $3::int on a raw body value: a number, or a string PostgreSQL parses as an
\* integer; anything else makes the statement fail.
PgInt(v) ==
    CASE v.t = "number" -> v.n
      [] v.t = "null" -> NULL
      [] v.t = "string" -> IF v.s = "" THEN NaN ELSE ParseDecimal(v.s)

\* $4, $5, $6 on a raw body value.
PgNum(v) == IF v.t = "null" THEN NULL ELSE PgInt(v)

\* The row POST /api/sets inserts.
LoggedSetRow(id, s, e, x) ==
    [id |-> id, session_id |-> s, exercise_id |-> e, set_number |-> PgInt(x.set_number),
     weight |-> PgNum(x.weight), reps |-> PgNum(x.reps), rpe |-> PgNum(x.rpe)]

\* What the client gets when an async handler without try/catch throws: the
\* promise is rejected and nothing answers (Express 4), or the rejection reaches
\* the default error handler, which answers 500 with its own page (Express 5).
UncaughtOutcomes ==
    {[status |-> 0, body |-> [ok |-> FALSE, error |-> NoError]],
     [status |-> 500, body |-> [ok |-> FALSE, error |-> ErrorPage]]}

RouteLogSet == "POST /api/sets"

\* POST /api/sets: one insert through pool.query, outside any try; the insert
\* fails when fault = 1 or set_number is no integer.
LogSet(s, e, x, fault) ==
    /\ inflight = <<>>
    /\ LET input == [session_id |-> s, exercise_id |-> e, sets |-> <<x>>, fault |-> fault]
       IN IF fault = 1 \/ PgInt(x.set_number) = NaN
            THEN /\ \E out \in UncaughtOutcomes : Respond(RouteLogSet, input, out.status, out.body)
                 /\ UNCHANGED <<exercise_sets, seq>>
            ELSE /\ seq.sets < MaxSetId
                 /\ seq' = [seq EXCEPT !.sets = @ + 1]
                 /\ exercise_sets' = exercise_sets \cup {LoggedSetRow(seq.sets + 1, s, e, x)}
                 /\ Respond(RouteLogSet, input, 200, [ok |-> TRUE, error |-> NoError])
    /\ UNCHANGED <<exercises, workout_templates, workout_template_exercises, workout_plans,
                   workout_plan_exercises, workout_sessions, inflight, workout_calendar,
                   runner>>

\* delete from exercise_sets where session_id = s
DeleteSetsOfSessionMutant(rows, s) == rows
DeleteSetsOfSession(rows, s) == {r \in rows : r.session_id # s}

\* delete from workout_sessions where id = s
DeleteSessionRow(rows, s) == {r \in rows : r.id # s}

RouteDeleteSession == "DELETE /api/sessions/:id"

\* DELETE /api/sessions/:id: two deletes between BEGIN and COMMIT on one client;
\* statement number fault fails (3 is the COMMIT; 0 none).
DeleteSession(id, fault) ==
    /\ inflight = <<>>
    /\ LET sessionId == asInt(id)
           input == [id |-> id, fault |-> fault]
           before == [sets |-> exercise_sets, sessions |-> workout_sessions]
           attempted ==
             [sets |-> IF fault = 1 THEN exercise_sets
                       ELSE DeleteSetsOfSession(exercise_sets, sessionId),
              sessions |-> IF fault \in {1, 2} THEN workout_sessions
                           ELSE DeleteSessionRow(workout_sessions, sessionId)]
           after == IF fault = 0 THEN attempted ELSE RolledBack(before, attempted)
       IN IF Falsy(sessionId)
            THEN /\ fault = 0
                 /\ Respond(RouteDeleteSession, input, 400, [ok |-> FALSE, error |-> Invalid])
                 /\ UNCHANGED <<exercise_sets, workout_sessions>>
            ELSE /\ exercise_sets' = after.sets
                 /\ workout_sessions' = after.sessions
                 /\ IF fault = 0
                      THEN Respond(RouteDeleteSession, input, 200,
                                   [ok |-> TRUE, error |-> NoError])
                      ELSE Respond(RouteDeleteSession, input, 500,
                                   [ok |-> FALSE, error |-> Stringified])
    /\ UNCHANGED <<exercises, workout_templates, workout_template_exercises, workout_plans,
                   workout_plan_exercises, seq, inflight, workout_calendar>>

\* The rows of a runner payload: a plan's or a template's exercise rows joined
\* with exercises, in the order the query returns them.
RunnerExercisesMutant(rows) == Perms({r \in rows : r.exercise_id \in ExerciseIds})
RunnerExercises(rows) == OrderBySortOrder({r \in rows : r.exercise_id \in ExerciseIds})

\* tmpl.rows[0]?.name ?? "Workout"
TemplateName(t) ==
    IF t \in TemplateIds THEN (CHOOSE x \in workout_templates : x.id = t).name ELSE "Workout"

NoPayload == [workout_name |-> "", exercises |-> <<>>]

RouteRunner == "GET /api/sessions/:id/runner"

\* GET /api/sessions/:id/runner: the plan's exercises when the session's plan
\* is there, else the exercises of the session's template.
GetRunner(id) ==
    /\ inflight = <<>>
    /\ LET sessionId == asInt(id)
           input == [id |-> id]
           found == {x \in workout_sessions : x.id = sessionId}
       IN IF Falsy(sessionId)
            THEN Respond(RouteRunner, input, 400, NoPayload)
          ELSE IF found = {}
            THEN Respond(RouteRunner, input, 404, NoPayload)
          ELSE LET session == CHOOSE x \in found : TRUE
                   plan == {x \in workout_plans : x.id = session.plan_id}
               IN IF ~Falsy(session.plan_id) /\ plan # {}
                    THEN \E ex \in RunnerExercises(
                                     PlanExercisesOf(workout_plan_exercises, session.plan_id)) :
                           Respond(RouteRunner, input, 200,
                                   [workout_name |-> (CHOOSE x \in plan : TRUE).name,
                                    exercises |-> ex])
                  ELSE IF Falsy(session.workout_template_id)
                    THEN Respond(RouteRunner, input, 400, NoPayload)
                  ELSE \E ex \in RunnerExercises(
                                   LinksOf(workout_template_exercises,
                                           session.workout_template_id)) :
                         Respond(RouteRunner, input, 200,
                                 [workout_name |-> TemplateName(session.workout_template_id),
                                  exercises |-> ex])
    /\ UNCHANGED <<tables, seq, inflight, runner>>

\* The date the model's client gives a session it starts from a plan: it tells
\* the plan's base template, which the database forgets when the plan goes.
PlanDate(base) == 10 + base

\* Plans made, sessions started from a template or a plan, sets logged one by
\* one, runner payloads fetched, plans and sessions deleted, one request at a
\* time; a logged set's insert and any statement of a session's deletion may
\* fail.
NextSessions ==
    \/ \E base \in TemplateIds : CreatePlan(base, "A", 0)
    \/ \E t \in {NULL, 2} : CreateSession(t, NULL, 1) /\ UNCHANGED runner
    \/ \E p \in 1..MaxPlanId, base \in TemplateIds :
         /\ \A x \in workout_plans : x.id = p => x.base_template_id = base
         /\ CreateSession(NULL, p, PlanDate(base))
         /\ UNCHANGED runner
    \/ \E s \in SessionIds, x \in SetInputs, fault \in {0, 1} :
         x.weight # JsNull /\ LogSet(s, 1, x, fault)
    \/ \E id \in 0..MaxSessionId : GetRunner(id)
    \/ \E p \in 1..MaxPlanId : DeletePlan(p, 0)
    \/ \E id \in 0..(MaxSessionId + 1), fault \in 0..3 :
         DeleteSession(id, fault) /\ UNCHANGED runner

SpecSessions == InitPlans /\ [][NextSessions]_vars

\* ------------------------------------------------------------- TSV import
\* SQL lower() on the names the model uses.
Lower(s) ==
    CASE s = "A" -> "a"
      [] s = "B" -> "b"
      [] s = "Push" -> "push"
      [] s = "Legs" -> "legs"
      [] s = "Squat" -> "squat"
      [] s = "Bench" -> "bench"
      [] s = "Row" -> "row"
      [] s = "Plan" -> "plan"
      [] OTHER -> s

\* /^-?\d+$/ on the strings the model uses.
IsIntegerString(s) == s \in {"1", "2", "3", "50"}

\* reqStr, optInt, optNum: whether they throw; optInt's and optNum's value.
reqStrThrows(v) == v = ""
optIntThrows(v) == v # "" /\ ~IsIntegerString(v)
optInt(v) == IF v = "" THEN NULL ELSE ParseDecimal(v)
optNumThrows(v) == v # "" /\ ParseDecimal(v) = NaN
optNum(v) == IF v = "" THEN NULL ELSE ParseDecimal(v)

\* The validation loop throws: a required field is blank, a plan name comes with
\* two base templates, or a numeric column does not parse.
ValidationThrows(rows) ==
    \/ \E i \in DOMAIN rows :
         \/ reqStrThrows(rows[i].plan_name)
         \/ reqStrThrows(rows[i].base_template_name)
         \/ reqStrThrows(rows[i].exercise_name)
         \/ optIntThrows(rows[i].sort_order)
         \/ optIntThrows(rows[i].target_sets)
         \/ optIntThrows(rows[i].target_reps)
         \/ optNumThrows(rows[i].target_weight)
    \/ \E i, j \in DOMAIN rows :
         /\ rows[i].plan_name = rows[j].plan_name
         /\ rows[i].base_template_name # rows[j].base_template_name

\* select id from workout_templates / exercises where lower(name) = lower($1)
LookupByName(table, name) == {x.id : x \in {y \in table : Lower(y.name) = Lower(name)}}

\* A template or exercise lookup finds nothing.
LookupThrows(rows) ==
    \E i \in DOMAIN rows :
      \/ LookupByName(workout_templates, rows[i].base_template_name) = {}
      \/ LookupByName(exercises, rows[i].exercise_name) = {}

\* planGroups: the plan names in order of first appearance.
PlanNames(rows) == {rows[i].plan_name : i \in DOMAIN rows}
FirstRow(rows, name) == Min({i \in DOMAIN rows : rows[i].plan_name = name})
PlanGroupOrder(rows) ==
    CHOOSE sq \in Perms(PlanNames(rows)) :
      \A i, j \in DOMAIN sq : i < j => FirstRow(rows, sq[i]) < FirstRow(rows, sq[j])
GroupItems(rows, name) ==
    LET OfPlan(r) == r.plan_name = name IN SelectSeq(rows, OfPlan)

\* The transaction's state while the create/replace loop runs: the tables as the
\* client sees them, the sequences, the counters, the number of data-changing
\* statements run so far, and whether a statement has thrown.
ImportStart ==
    [plans |-> workout_plans, planex |-> workout_plan_exercises,
     seqPlans |-> seq.plans, seqPlanex |-> seq.planex,
     created |-> 0, updated |-> 0, inserted |-> 0, writes |-> 0, threw |-> FALSE]

\* The row an item is inserted as; a missing sort_order is the item's position.
ImportedRow(id, planId, it, idx) ==
    [id |-> id, plan_id |-> planId,
     exercise_id |-> CHOOSE e \in LookupByName(exercises, it.exercise_name) : TRUE,
     sort_order |-> IF optInt(it.sort_order) = NULL THEN idx ELSE optInt(it.sort_order),
     target_sets |-> optInt(it.target_sets), target_reps |-> optInt(it.target_reps),
     target_weight |-> optNum(it.target_weight), notes |-> it.notes]

\* One pass of the create/replace loop for the plan called name; data-changing
\* statement number fault throws.
ImportGroup(st, rows, name, mode, fault) ==
    LET items == GroupItems(rows, name)
        baseTemplateId ==
          CHOOSE t \in LookupByName(workout_templates, items[1].base_template_name) : TRUE
        existing == {x \in st.plans : Lower(x.name) = Lower(name)
                                      /\ x.base_template_id = baseTemplateId}
        planId == IF existing # {} THEN (CHOOSE x \in existing : TRUE).id ELSE st.seqPlans + 1
        firstThrows == fault = st.writes + 1
        n == Len(items)
        done == IF fault > st.writes + 1 /\ fault <= st.writes + 1 + n
                  THEN fault - st.writes - 2 ELSE n
        kept == IF existing # {} THEN {r \in st.planex : r.plan_id # planId} ELSE st.planex
    IN IF st.threw THEN st
       ELSE IF existing # {} /\ mode = "create" THEN [st EXCEPT !.threw = TRUE]
       ELSE IF firstThrows THEN [st EXCEPT !.threw = TRUE]
       ELSE [plans |-> IF existing # {} THEN st.plans
                       ELSE st.plans \cup {[id |-> planId, name |-> name,
                                            base_template_id |-> baseTemplateId]},
             planex |-> kept \cup {ImportedRow(st.seqPlanex + i, planId, items[i], i) :
                                     i \in 1..done},
             seqPlans |-> IF existing # {} THEN st.seqPlans ELSE planId,
             seqPlanex |-> st.seqPlanex + done,
             created |-> IF existing # {} THEN st.created ELSE st.created + 1,
             updated |-> IF existing # {} THEN st.updated + 1 ELSE st.updated,
             inserted |-> st.inserted + done,
             writes |-> st.writes + 1 + done,
             threw |-> done < n]

RECURSIVE ImportGroups(_, _, _, _, _)
\* The create/replace loop over the plan groups in order.
ImportGroups(st, rows, order, mode, fault) ==
    IF order = <<>> THEN st
    ELSE ImportGroups(ImportGroup(st, rows, Head(order), mode, fault),
                      rows, Tail(order), mode, fault)

\* The transaction from BEGIN to just before COMMIT or ROLLBACK.
ImportTransaction(rows, mode, fault) ==
    IF LookupThrows(rows) THEN [ImportStart EXCEPT !.threw = TRUE]
    ELSE ImportGroups(ImportStart, rows, PlanGroupOrder(rows), mode, fault)

\* { dry_run = true } = req.body: true when the field is left out.
DryRunOf(v) == IF v = "undefined" THEN TRUE ELSE v = "true"

\* if (dry_run) ROLLBACK
DryRunRolledBackMutant(before, attempted) == attempted
DryRunRolledBack(before, attempted) == before

RouteImport == "POST /api/import/plans"

\* POST /api/import/plans on the parsed TSV (hasTsv: the tsv field is not empty;
\* headersOk: the three required columns are there; rows: the data rows).
\* Data-changing statement number fault of the transaction throws; one more than
\* their number is the closing COMMIT or ROLLBACK; 0 is none.
ImportPlans(hasTsv, headersOk, rows, dry_run, mode, fault) ==
    /\ inflight = <<>>
    /\ LET input == [hasTsv |-> hasTsv, headersOk |-> headersOk, rows |-> rows,
                     dry_run |-> dry_run, mode |-> mode, fault |-> fault]
           none == [plans_created |-> 0, plans_updated |-> 0, exercises_inserted |-> 0]
           before == [plans |-> workout_plans, planex |-> workout_plan_exercises]
       IN IF ~hasTsv \/ mode \notin {"create", "replace"} \/ ~headersOk \/ ValidationThrows(rows)
            THEN /\ fault = 0
                 /\ Respond(RouteImport, input, 400, none)
                 /\ UNCHANGED <<workout_plans, workout_plan_exercises, seq>>
            ELSE \E st \in {ImportTransaction(rows, mode, fault)} :
                 LET attempted == [plans |-> st.plans, planex |-> st.planex]
                     threw == st.threw \/ fault = st.writes + 1
                     after == IF threw THEN RolledBack(before, attempted)
                              ELSE IF DryRunOf(dry_run)
                                     THEN DryRunRolledBack(before, attempted)
                              ELSE attempted
                 IN /\ fault <= st.writes + 1
                    /\ st.seqPlans <= MaxPlanId
                    /\ st.seqPlanex <= MaxPlanExId
                    /\ seq' = [seq EXCEPT !.plans = st.seqPlans, !.planex = st.seqPlanex]
                    /\ workout_plans' = after.plans
                    /\ workout_plan_exercises' = after.planex
                    /\ IF threw
                         THEN Respond(RouteImport, input, 400, none)
                         ELSE Respond(RouteImport, input, 200,
                                      [plans_created |-> st.created,
                                       plans_updated |-> st.updated,
                                       exercises_inserted |-> st.inserted])
    /\ UNCHANGED <<exercises, workout_templates, workout_template_exercises,
                   workout_sessions, exercise_sets, inflight, workout_calendar, runner>>

TsvRow(plan, base, ex, sort) ==
    [plan_name |-> plan, base_template_name |-> base, exercise_name |-> ex,
     sort_order |-> sort, target_sets |-> "3", target_reps |-> "", target_weight |-> "50",
     notes |-> ""]

\* The TSVs a client may send: a header alone, one plan, one plan under two
\* names that differ only in case, two plans, and TSVs whose second row fails (a
\* blank plan name, a sort_order that is no integer, an unknown template, an
\* unknown exercise, a second base template for plan A).
TsvDocs ==
    {<<>>,
     <<TsvRow("A", "Push", "Squat", "")>>,
     <<TsvRow("B", "Legs", "Squat", "")>>,
     <<TsvRow("A", "Push", "Squat", ""), TsvRow("a", "push", "Bench", "2")>>,
     <<TsvRow("A", "Push", "Squat", ""), TsvRow("B", "Legs", "Squat", "")>>,
     <<TsvRow("A", "Push", "Squat", ""), TsvRow("", "Legs", "Squat", "")>>,
     <<TsvRow("A", "Push", "Squat", ""), TsvRow("B", "Legs", "Squat", "x")>>,
     <<TsvRow("A", "Push", "Squat", ""), TsvRow("B", "Nope", "Squat", "")>>,
     <<TsvRow("A", "Push", "Squat", ""), TsvRow("B", "Legs", "Nope", "")>>,
     <<TsvRow("A", "Push", "Squat", ""), TsvRow("A", "Legs", "Squat", "")>>}

\* Imports, one request at a time; any one statement may fail.
NextImport ==
    \/ \E rows \in TsvDocs, dry_run \in {"true", "false"}, mode \in {"create", "replace"},
          fault \in 0..5 :
         ImportPlans(TRUE, TRUE, rows, dry_run, mode, fault)
    \/ \E rows \in TsvDocs : ImportPlans(TRUE, TRUE, rows, "undefined", "replace", 0)
    \/ \E hasTsv \in BOOLEAN, mode \in {"create", "merge"} :
         ImportPlans(hasTsv, hasTsv /\ mode = "merge", <<>>, "true", mode, 0)

SpecImport == InitPlans /\ [][NextImport]_vars

\* ------------------------------------------- template requests in parallel
\* A request being served: its handler's position (pc) and local variables.  Each
\* step is one awaited pool.query; the pool runs it on any free connection, so a
\* statement takes effect on its own and other requests' statements come
\* between two statements of one handler.
NewRequest(kind, first, t, e, direction) ==
    [kind |-> kind, pc |-> first, t |-> t, e |-> e, direction |-> direction,
     max |-> 0, ids |-> <<>>, i |-> 1, curId |-> 0, curOrder |-> 0, nbId |-> 0,
     nbOrder |-> 0, status |-> 0]

Goto(r, pc) == inflight' = [inflight EXCEPT ![r].pc = pc]

Finish(r, status) == inflight' = [inflight EXCEPT ![r].pc = "done", ![r].status = status]

\* A request arrives: add, remove or move.
Start(kind, t, e, direction) ==
    /\ Len(inflight) < MaxRequests
    /\ \/ kind = "add" /\ direction = "" /\ ~Falsy(asInt(e))
          /\ inflight' = Append(inflight, NewRequest(kind, "exists", t, e, direction))
       \/ kind = "remove" /\ direction = ""
          /\ inflight' = Append(inflight, NewRequest(kind, "delete", t, e, direction))
       \/ kind = "move" /\ direction \in {"up", "down"}
          /\ inflight' = Append(inflight, NewRequest(kind, "cur", t, e, direction))
    /\ UNCHANGED <<tables, seq, req, res, pre, runner>>

\* add: the duplicate check.
AddExists(r) ==
    /\ inflight[r].pc = "exists"
    /\ IF \E x \in LinksOf(workout_template_exercises, inflight[r].t) :
            x.exercise_id = inflight[r].e
         THEN Finish(r, 409)
         ELSE Goto(r, "max")
    /\ UNCHANGED <<tables, seq, req, res, pre, runner>>

\* add: select coalesce(max(sort_order), 0).
AddMax(r) ==
    /\ inflight[r].pc = "max"
    /\ inflight' = [inflight EXCEPT
                      ![r].max = MaxSortOrder(workout_template_exercises, inflight[r].t),
                      ![r].pc = "insert"]
    /\ UNCHANGED <<tables, seq, req, res, pre, runner>>

\* add: the insert with sort_order max + 1.
AddInsert(r) ==
    /\ inflight[r].pc = "insert"
    /\ seq.links < MaxLinkId
    /\ seq' = [seq EXCEPT !.links = @ + 1]
    /\ workout_template_exercises' = workout_template_exercises \cup
          {[id |-> seq.links + 1, workout_template_id |-> inflight[r].t,
            exercise_id |-> inflight[r].e, sort_order |-> NextSortOrder(inflight[r].max)]}
    /\ Goto(r, "reply")
    /\ UNCHANGED <<exercises, workout_templates, workout_plans, workout_plan_exercises,
                   workout_sessions, exercise_sets, req, res, pre,
                   workout_calendar, runner>>

\* remove: the delete.
RemoveDelete(r) ==
    /\ inflight[r].pc = "delete"
    /\ workout_template_exercises' =
         DeleteLink(workout_template_exercises, inflight[r].t, inflight[r].e)
    /\ Goto(r, "select")
    /\ UNCHANGED <<exercises, workout_templates, workout_plans, workout_plan_exercises,
                   workout_sessions, exercise_sets, seq, req, res, pre,
                   workout_calendar, runner>>

\* remove: select the remaining ids ordered by sort_order.
RemoveSelect(r) ==
    /\ inflight[r].pc = "select"
    /\ \E sq \in OrderBySortOrder(LinksOf(workout_template_exercises, inflight[r].t)) :
         inflight' = [inflight EXCEPT ![r].ids = [k \in DOMAIN sq |-> sq[k].id],
                                      ![r].i = 1,
                                      ![r].pc = IF Len(sq) = 0 THEN "reply" ELSE "update"]
    /\ UNCHANGED <<tables, seq, req, res, pre, runner>>

\* remove: one pass of the renumbering loop.
RemoveUpdate(r) ==
    /\ inflight[r].pc = "update"
    /\ workout_template_exercises' =
         SetSortOrder(workout_template_exercises, inflight[r].ids[inflight[r].i], inflight[r].i)
    /\ inflight' = [inflight EXCEPT
                      ![r].i = @ + 1,
                      ![r].pc = IF inflight[r].i = Len(inflight[r].ids) THEN "reply" ELSE "update"]
    /\ UNCHANGED <<exercises, workout_templates, workout_plans, workout_plan_exercises,
                   workout_sessions, exercise_sets, seq, req, res, pre,
                   workout_calendar, runner>>

\* move: select the addressed row.
MoveCur(r) ==
    /\ inflight[r].pc = "cur"
    /\ LET cur == {x \in LinksOf(workout_template_exercises, inflight[r].t) :
                     x.exercise_id = inflight[r].e}
       IN IF cur = {} THEN Finish(r, 404)
          ELSE \E c \in cur :
                 inflight' = [inflight EXCEPT ![r].curId = c.id, ![r].curOrder = c.sort_order,
                                              ![r].pc = "neighbor"]
    /\ UNCHANGED <<tables, seq, req, res, pre, runner>>

\* move: select the neighbour.
MoveNeighbor(r) ==
    /\ inflight[r].pc = "neighbor"
    /\ LET neighbor == Neighbor(workout_template_exercises, inflight[r].t,
                                inflight[r].curOrder, inflight[r].direction)
       IN IF neighbor = {} THEN Goto(r, "reply")
          ELSE \E nb \in neighbor :
                 inflight' = [inflight EXCEPT ![r].nbId = nb.id, ![r].nbOrder = nb.sort_order,
                                              ![r].pc = "update1"]
    /\ UNCHANGED <<tables, seq, req, res, pre, runner>>

\* move: pool.query("begin") and the first update.
MoveUpdate1(r) ==
    /\ inflight[r].pc = "update1"
    /\ workout_template_exercises' =
         SetSortOrder(workout_template_exercises, inflight[r].curId, inflight[r].nbOrder)
    /\ Goto(r, "update2")
    /\ UNCHANGED <<exercises, workout_templates, workout_plans, workout_plan_exercises,
                   workout_sessions, exercise_sets, seq, req, res, pre,
                   workout_calendar, runner>>

\* move: the second update and pool.query("commit").  When the update throws,
\* pool.query("rollback") runs on whichever client the pool hands out: it undoes
\* the first update only if "begin" and both updates happened to run on that
\* client, otherwise the first update stays; the answer is 500.
MoveUpdate2(r, ok) ==
    /\ inflight[r].pc = "update2"
    /\ IF ok
         THEN /\ workout_template_exercises' =
                   SetSortOrder(workout_template_exercises, inflight[r].nbId,
                                inflight[r].curOrder)
              /\ Goto(r, "reply")
         ELSE /\ \/ UNCHANGED workout_template_exercises
                 \/ workout_template_exercises' =
                      SetSortOrder(workout_template_exercises, inflight[r].curId,
                                   inflight[r].curOrder)
              /\ Finish(r, 500)
    /\ UNCHANGED <<exercises, workout_templates, workout_plans, workout_plan_exercises,
                   workout_sessions, exercise_sets, seq, req, res, pre,
                   workout_calendar, runner>>

\* The closing getWorkoutTemplate and res.json.
Reply(r) ==
    /\ inflight[r].pc = "reply"
    /\ Finish(r, 200)
    /\ UNCHANGED <<tables, seq, req, res, pre, runner>>

\* Template 1 holds Squat.
InitConc ==
    /\ exercises = SeedExercises
    /\ workout_templates = SeedTemplates
    /\ workout_template_exercises =
         {[id |-> 1, workout_template_id |-> 1, exercise_id |-> 1, sort_order |-> 1]}
    /\ workout_plans = {}
    /\ workout_plan_exercises = {}
    /\ workout_sessions = {}
    /\ exercise_sets = {}
    /\ seq = [links |-> 1, plans |-> 0, planex |-> 0, sets |-> 0, sessions |-> 0,
             calendar |-> 0]
    /\ workout_calendar = {}
    /\ runner = NoRunner
    /\ req = NoRequest
    /\ res = NoResponse
    /\ pre = Snapshot
    /\ inflight = <<>>

\* Requests on template 1 arrive at any time and their statements interleave.
NextConc ==
    \/ \E kind \in {"add", "remove", "move"}, e \in ExerciseIds, d \in {"", "up", "down"} :
         Start(kind, 1, e, d)
    \/ \E r \in DOMAIN inflight : AddExists(r)
    \/ \E r \in DOMAIN inflight : AddMax(r)
    \/ \E r \in DOMAIN inflight : AddInsert(r)
    \/ \E r \in DOMAIN inflight : RemoveDelete(r)
    \/ \E r \in DOMAIN inflight : RemoveSelect(r)
    \/ \E r \in DOMAIN inflight : RemoveUpdate(r)
    \/ \E r \in DOMAIN inflight : MoveCur(r)
    \/ \E r \in DOMAIN inflight : MoveNeighbor(r)
    \/ \E r \in DOMAIN inflight : MoveUpdate1(r)
    \/ \E r \in DOMAIN inflight, ok \in BOOLEAN : MoveUpdate2(r, ok)
    \/ \E r \in DOMAIN inflight : Reply(r)

SpecConc == InitConc /\ [][NextConc]_vars

\* ---------------------------------------------------------------- calendar
\* A calendar date is a record [y, m, d]; a JavaScript Date at UTC midnight is
\* its number of days since 1970-01-01.  Days since 1970-01-01 of the civil
\* date (y, m, d) in the Gregorian calendar (a day past the end of the month
\* runs on into the next month, as in Date.UTC and setUTCDate).
DaysFromCivil(y, m, d) ==
    LET yy == IF m <= 2 THEN y - 1 ELSE y
        mp == (m + 9) % 12
    IN 365 * yy + (yy \div 4) - (yy \div 100) + (yy \div 400)
         + ((153 * mp + 2) \div 5) + d - 1 - 719468

\* The civil date of a day number.
CivilFromDays(n) ==
    LET z == n + 719468
        era == z \div 146097
        doe == z - era * 146097
        yoe == (doe - (doe \div 1460) + (doe \div 36524) - (doe \div 146096)) \div 365
        doy == doe - (365 * yoe + (yoe \div 4) - (yoe \div 100))
        mp == (5 * doy + 2) \div 153
        m == IF mp < 10 THEN mp + 3 ELSE mp - 9
    IN [y |-> yoe + era * 400 + (IF m <= 2 THEN 1 ELSE 0), m |-> m,
        d |-> doy - ((153 * mp + 2) \div 5) + 1]

\* Date.UTC(y, m - 1, d) in days: a year from 0 to 99 stands for 1900 + year.
DateUTC(y, m, d) == DaysFromCivil(IF y \in 0..99 THEN 1900 + y ELSE y, m, d)

\* A query parameter: text that matches /^\d{4}-\d{2}-\d{2}$/ (with its
\* digits' values), or text that does not.
IsoText(y, m, d) == [iso |-> TRUE, y |-> y, m |-> m, d |-> d]
OtherText == [iso |-> FALSE, y |-> 0, m |-> 0, d |-> 0]

\* parseISODateOnly: null (here NULL) unless the text matches.
parseISODateOnly(s) == IF ~s.iso THEN NULL ELSE DateUTC(s.y, s.m, s.d)

\* getUTCDay: 0 is Sunday; 1970-01-01 was a Thursday.
getUTCDay(dateUtc) == (dateUtc + 4) % 7

\* startOfWeekMonday
startOfWeekMonday(dateUtc) ==
    LET dow == getUTCDay(dateUtc)
        diff == IF dow = 0 THEN -6 ELSE 1 - dow
    IN dateUtc + diff

\* isoDateOnly: toISOString().slice(0, 10), a date as long as the year has four
\* digits; past 9999 the text is the head of "+010000-01-03T...", no date.
isoDateOnly(dateUtc) ==
    IF CivilFromDays(dateUtc).y \in 0..9999 THEN CivilFromDays(dateUtc)
    ELSE [y |-> NaN, m |-> NaN, d |-> NaN]

\* $1::date of a YYYY-MM-DD text, as days.
PgDate(c) == DaysFromCivil(c.y, c.m, c.d)

\* The rows of the week query (joined with plans and templates), in its order:
\* planned_on, then id.
WeekItems(weekStart, weekEnd) ==
    LET S == {wc \in workout_calendar :
                /\ wc.workout_plan_id \in PlanIds
                /\ wc.workout_template_id \in TemplateIds
                /\ PgDate(wc.planned_on) >= PgDate(weekStart)
                /\ PgDate(wc.planned_on) < PgDate(weekEnd)}
    IN CHOOSE f \in Perms(S) :
         \A i, j \in DOMAIN f :
           i < j => \/ PgDate(f[i].planned_on) < PgDate(f[j].planned_on)
                    \/ /\ f[i].planned_on = f[j].planned_on
                       /\ f[i].id < f[j].id

NoWeek == [week_start |-> [y |-> 0, m |-> 0, d |-> 0], items |-> <<>>]

RouteCalendar == "GET /api/calendar"

\* GET /api/calendar?week_start=...: outside any try; a week end past year
\* 9999 makes the query throw.
GetCalendar(week_start) ==
    /\ inflight = <<>>
    /\ LET input == [week_start |-> week_start]
           d == parseISODateOnly(week_start)
           mondayUtc == startOfWeekMonday(d)
           weekStart == isoDateOnly(mondayUtc)
           weekEnd == isoDateOnly(mondayUtc + 7)
       IN IF d = NULL
            THEN Respond(RouteCalendar, input, 400, NoWeek)
          ELSE IF weekEnd.y = NaN
            THEN \E out \in UncaughtOutcomes : Respond(RouteCalendar, input, out.status, NoWeek)
          ELSE Respond(RouteCalendar, input, 200,
                       [week_start |-> weekStart, items |-> WeekItems(weekStart, weekEnd)])
    /\ UNCHANGED <<tables, seq, inflight, runner>>

RouteAddCalendar == "POST /api/calendar"

\* POST /api/calendar: the entry takes its template from the plan.
AddCalendar(planned_on, workout_plan_id) ==
    /\ inflight = <<>>
    /\ LET input == [planned_on |-> planned_on, workout_plan_id |-> workout_plan_id]
           planId == asInt(workout_plan_id)
       IN IF parseISODateOnly(planned_on) = NULL \/ Falsy(planId)
            THEN /\ Respond(RouteAddCalendar, input, 400, NoWeek)
                 /\ UNCHANGED <<workout_calendar, seq>>
            ELSE /\ seq.calendar < MaxCalendarId
                 /\ seq' = [seq EXCEPT !.calendar = @ + 1]
                 /\ workout_calendar' = workout_calendar \cup
                      {[id |-> seq.calendar + 1,
                        planned_on |-> [y |-> planned_on.y, m |-> planned_on.m,
                                        d |-> planned_on.d],
                        workout_plan_id |-> planId,
                        workout_template_id |->
                          (CHOOSE x \in workout_plans : x.id = planId).base_template_id]}
                 /\ Respond(RouteAddCalendar, input, 201, NoWeek)
    /\ UNCHANGED <<exercises, workout_templates, workout_template_exercises, workout_plans,
                   workout_plan_exercises, workout_sessions, exercise_sets, inflight, runner>>

\* The dates the model's client sends: the days from Saturday 2024-02-24 to
\* Monday 2024-03-04 (a leap day and a month's end inside), the turn of the
\* year 2023, the first days of year 50 and of 1950, and the last day of 9999.
CalendarDates ==
    {IsoText(2024, 2, d) : d \in 24..29} \cup {IsoText(2024, 3, d) : d \in 1..4}
      \cup {IsoText(2023, 12, 31), IsoText(2024, 1, 1), IsoText(50, 1, 3), IsoText(1950, 1, 3),
            IsoText(9999, 12, 31)}

\* The days on which the model's client plans workouts.
PlannedDates ==
    {IsoText(2024, 2, 25), IsoText(2024, 2, 26), IsoText(2024, 3, 3), IsoText(2024, 3, 4),
     IsoText(50, 1, 3), IsoText(1950, 1, 3)}

\* Plan 1 made from template 1; nothing is planned yet.
InitCalendar ==
    /\ exercises = SeedExercises
    /\ workout_templates = SeedTemplates
    /\ workout_template_exercises = SeedLinks
    /\ workout_plans = {[id |-> 1, name |-> "A", base_template_id |-> 1]}
    /\ workout_plan_exercises =
         {PlanExerciseRow(1, 1, [exercise_id |-> 1, sort_order |-> 1])}
    /\ workout_sessions = {}
    /\ exercise_sets = {}
    /\ seq = [links |-> 3, plans |-> 1, planex |-> 1, sets |-> 0, sessions |-> 0,
              calendar |-> 0]
    /\ workout_calendar = {}
    /\ runner = NoRunner
    /\ req = NoRequest
    /\ res = NoResponse
    /\ pre = Snapshot
    /\ inflight = <<>>

\* Workouts planned and weeks fetched, one request at a time.
NextCalendar ==
    \/ \E d \in PlannedDates \cup {OtherText}, p \in PlanIds \cup {0} : AddCalendar(d, p)
    \/ \E d \in CalendarDates \cup {OtherText} : GetCalendar(d)

SpecCalendar == InitCalendar /\ [][NextCalendar]_vars

\* ------------------------------------------- handlers holding a connection
\* The four handlers that check a client out of the pool, statement by
\* statement.  A request's record holds its handler's position, how often it has
\* taken a client (pool.connect) and given one back (client.release), the status
\* it has answered (0: nothing yet), and its transaction: the tables its
\* statements saw and what they made of them, which COMMIT makes visible.
NoTx == [plans |-> {}, planex |-> {}, sessions |-> {}, sets |-> {}]

PoolRequest(kind, input, dry_run) ==
    [kind |-> kind, pc |-> IF kind = "import" THEN "connect" ELSE "validate",
     input |-> input, dry_run |-> dry_run, connects |-> 0, releases |-> 0, status |-> 0,
     before |-> NoTx, after |-> NoTx]

\* A request arrives.  input tells what its validation will find: "ok",
\* "invalid" (an early return) or, for an import, "throws" (a TSV row that fails
\* validation).
Arrive(kind, input, dry_run) ==
    /\ Len(inflight) < MaxRequests
    /\ kind = "import" \/ (input # "throws" /\ ~dry_run)
    /\ inflight' = Append(inflight, PoolRequest(kind, input, dry_run))
    /\ UNCHANGED <<tables, seq, req, res, pre, runner>>

\* bulk, delete session, delete plan: the checks before pool.connect().
Validate(r) ==
    /\ inflight[r].pc = "validate"
    /\ inflight' = IF inflight[r].input = "invalid"
                     THEN [inflight EXCEPT ![r].status = 400, ![r].pc = "done"]
                     ELSE [inflight EXCEPT ![r].pc = "connect"]
    /\ UNCHANGED <<tables, seq, req, res, pre, runner>>

\* const client = await pool.connect(), which an unreachable database makes
\* throw outside the try.
Connect(r, ok) ==
    /\ inflight[r].pc = "connect"
    /\ inflight' = IF ok
                     THEN [inflight EXCEPT ![r].connects = @ + 1,
                                           ![r].pc = IF inflight[r].kind = "import"
                                                       THEN "check" ELSE "begin"]
                     ELSE [inflight EXCEPT ![r].pc = "done"]
    /\ UNCHANGED <<tables, seq, req, res, pre, runner>>

\* import: the checks inside the try, after the client was taken.
ImportCheck(r) ==
    /\ inflight[r].pc = "check"
    /\ inflight' = CASE inflight[r].input = "invalid" ->
                          [inflight EXCEPT ![r].status = 400, ![r].pc = "finally"]
                     [] inflight[r].input = "throws" -> [inflight EXCEPT ![r].pc = "catch"]
                     [] OTHER -> [inflight EXCEPT ![r].pc = "begin"]
    /\ UNCHANGED <<tables, seq, req, res, pre, runner>>

\* client.query("BEGIN")
Begin(r, ok) ==
    /\ inflight[r].pc = "begin"
    /\ inflight' = [inflight EXCEPT ![r].pc = IF ok THEN "work" ELSE "catch"]
    /\ UNCHANGED <<tables, seq, req, res, pre, runner>>

\* The tables a transaction works on.
TxTables ==
    [plans |-> workout_plans, planex |-> workout_plan_exercises,
     sessions |-> workout_sessions, sets |-> exercise_sets]

\* The requests the model sends: one set for session 1 and exercise 1, session
\* 1, plan 1, and a one-row TSV for plan A in mode replace.
PoolSet == [set_number |-> JsNum(1), weight |-> JsNum(50), reps |-> JsNum(8), rpe |-> JsNull]
PoolTsv == <<TsvRow("A", "Push", "Squat", "")>>

\* What the handler's statements make of the tables.
Attempted(kind) ==
    CASE kind = "bulk" ->
           [TxTables EXCEPT !.sets = DeleteSets(exercise_sets, 1, 1)
                                       \cup {SetRow(seq.sets + 1, 1, 1, PoolSet)}]
      [] kind = "deleteSession" ->
           [TxTables EXCEPT !.sets = DeleteSetsOfSession(exercise_sets, 1),
                            !.sessions = DeleteSessionRow(workout_sessions, 1)]
      [] kind = "deletePlan" ->
           [TxTables EXCEPT !.sessions = DetachSessions(workout_sessions, 1),
                            !.planex = DeletePlanExercises(workout_plan_exercises, 1),
                            !.plans = DeletePlanRow(workout_plans, 1)]
      [] kind = "import" ->
           [TxTables EXCEPT !.plans = ImportTransaction(PoolTsv, "replace", 0).plans,
                            !.planex = ImportTransaction(PoolTsv, "replace", 0).planex]

\* The sequences after the handler's inserts.
SeqAfter(kind) ==
    CASE kind = "bulk" -> [seq EXCEPT !.sets = @ + 1]
      [] kind = "import" ->
           [seq EXCEPT !.plans = ImportTransaction(PoolTsv, "replace", 0).seqPlans,
                       !.planex = ImportTransaction(PoolTsv, "replace", 0).seqPlanex]
      [] OTHER -> seq

\* The handler's statements between BEGIN and COMMIT, one of which may throw.
Work(r, ok) ==
    /\ inflight[r].pc = "work"
    /\ IF ok
         THEN /\ SeqAfter(inflight[r].kind).sets <= MaxSetId
              /\ SeqAfter(inflight[r].kind).plans <= MaxPlanId
              /\ SeqAfter(inflight[r].kind).planex <= MaxPlanExId
              /\ seq' = SeqAfter(inflight[r].kind)
              /\ inflight' = [inflight EXCEPT
                                ![r].before = TxTables,
                                ![r].after = Attempted(inflight[r].kind),
                                ![r].pc = IF inflight[r].dry_run THEN "dryrun" ELSE "commit"]
         ELSE /\ inflight' = [inflight EXCEPT ![r].pc = "catch"]
              /\ UNCHANGED seq
    /\ UNCHANGED <<tables, req, res, pre, runner>>

\* import with dry_run: ROLLBACK and the summary.
DryRun(r, ok) ==
    /\ inflight[r].pc = "dryrun"
    /\ inflight' = IF ok THEN [inflight EXCEPT ![r].status = 200, ![r].pc = "finally"]
                         ELSE [inflight EXCEPT ![r].pc = "catch"]
    /\ UNCHANGED <<tables, seq, req, res, pre, runner>>

\* COMMIT makes the transaction's deletions and insertions visible.
Committed(cur, before, after) == (cur \ (before \ after)) \cup (after \ before)

\* client.query("COMMIT") and the 200 answer.
Commit(r, ok) ==
    /\ inflight[r].pc = "commit"
    /\ IF ok
         THEN /\ workout_plans' =
                   Committed(workout_plans, inflight[r].before.plans, inflight[r].after.plans)
              /\ workout_plan_exercises' =
                   Committed(workout_plan_exercises, inflight[r].before.planex,
                             inflight[r].after.planex)
              /\ workout_sessions' =
                   Committed(workout_sessions, inflight[r].before.sessions,
                             inflight[r].after.sessions)
              /\ exercise_sets' =
                   Committed(exercise_sets, inflight[r].before.sets, inflight[r].after.sets)
              /\ inflight' = [inflight EXCEPT ![r].status = 200, ![r].pc = "finally"]
         ELSE /\ inflight' = [inflight EXCEPT ![r].pc = "catch"]
              /\ UNCHANGED <<workout_plans, workout_plan_exercises, workout_sessions,
                             exercise_sets>>
    /\ UNCHANGED <<exercises, workout_templates, workout_template_exercises, seq, req, res,
                   pre, workout_calendar, runner>>

\* The catch block: ROLLBACK, then the error answer.  The import swallows a
\* failing ROLLBACK and answers 400; in the other handlers a failing ROLLBACK
\* throws out of the catch block before anything is answered.
Catch(r, ok) ==
    /\ inflight[r].pc = "catch"
    /\ inflight' = IF inflight[r].kind = "import"
                     THEN [inflight EXCEPT ![r].status = 400, ![r].pc = "finally"]
                   ELSE IF ok
                     THEN [inflight EXCEPT ![r].status = 500, ![r].pc = "finally"]
                   ELSE [inflight EXCEPT ![r].pc = "finally"]
    /\ UNCHANGED <<tables, seq, req, res, pre, runner>>

\* client.release()
ReleaseMutant(rec) == rec
Release(rec) == [rec EXCEPT !.releases = @ + 1]

\* The finally block.
Finally(r) ==
    /\ inflight[r].pc = "finally"
    /\ inflight' = [inflight EXCEPT ![r] = [Release(inflight[r]) EXCEPT !.pc = "done"]]
    /\ UNCHANGED <<tables, seq, req, res, pre, runner>>

\* Plan 1 (made from template 1) with one exercise, and session 1 started from it.
InitPool ==
    /\ exercises = SeedExercises
    /\ workout_templates = SeedTemplates
    /\ workout_template_exercises = SeedLinks
    /\ workout_plans = {[id |-> 1, name |-> "A", base_template_id |-> 1]}
    /\ workout_plan_exercises =
         {PlanExerciseRow(1, 1, [exercise_id |-> 1, sort_order |-> 1])}
    /\ workout_sessions =
         {[id |-> 1, workout_template_id |-> 1, plan_id |-> 1, performed_on |-> 1]}
    /\ exercise_sets = {}
    /\ seq = [links |-> 3, plans |-> 1, planex |-> 1, sets |-> 0, sessions |-> 1,
             calendar |-> 0]
    /\ workout_calendar = {}
    /\ runner = NoRunner
    /\ req = NoRequest
    /\ res = NoResponse
    /\ pre = Snapshot
    /\ inflight = <<>>

PoolKinds == {"bulk", "deleteSession", "deletePlan", "import"}

\* Requests arrive at any time; every statement may fail.
NextPool ==
    \/ \E kind \in PoolKinds, input \in {"ok", "invalid", "throws"}, dry_run \in BOOLEAN :
         Arrive(kind, input, dry_run)
    \/ \E r \in DOMAIN inflight : Validate(r)
    \/ \E r \in DOMAIN inflight, ok \in BOOLEAN : Connect(r, ok)
    \/ \E r \in DOMAIN inflight : ImportCheck(r)
    \/ \E r \in DOMAIN inflight, ok \in BOOLEAN : Begin(r, ok)
    \/ \E r \in DOMAIN inflight, ok \in BOOLEAN : Work(r, ok)
    \/ \E r \in DOMAIN inflight, ok \in BOOLEAN : DryRun(r, ok)
    \/ \E r \in DOMAIN inflight, ok \in BOOLEAN : Commit(r, ok)
    \/ \E r \in DOMAIN inflight, ok \in BOOLEAN : Catch(r, ok)
    \/ \E r \in DOMAIN inflight : Finally(r)

SpecPool == InitPool /\ [][NextPool]_vars

\* ------------------------------------------------ references to exercises
\* The rows of the three tables that refer to exercise id.
RefersTo(links, planex, sets, id) ==
    {r \in links \cup planex \cup sets : r.exercise_id = id}

\* DELETE /api/exercises/:id when the exercise is in no template and the
\* database refuses the delete: src/ holds no schema, and if it declares
\* foreign keys on the plan rows or the sets that refer to the exercise the
\* delete statement throws, outside any try.
DeleteExerciseRefused(id) ==
    /\ inflight = <<>>
    /\ ~UsedInWorkout(workout_template_exercises, asInt(id))
    /\ RefersTo({}, workout_plan_exercises, exercise_sets, asInt(id)) # {}
    /\ \E out \in UncaughtOutcomes :
         Respond(RouteDeleteExercise, [id |-> id], out.status, out.body)
    /\ UNCHANGED <<tables, seq, inflight, runner>>

\* Template 1 holds Squat then Bench; session 1 was run from it.
InitRefs ==
    /\ exercises = SeedExercises
    /\ workout_templates = SeedTemplates
    /\ workout_template_exercises = {r \in SeedLinks : r.workout_template_id = 1}
    /\ workout_plans = {}
    /\ workout_plan_exercises = {}
    /\ workout_sessions =
         {[id |-> 1, workout_template_id |-> 1, plan_id |-> NULL, performed_on |-> 1]}
    /\ exercise_sets = {}
    /\ seq = [links |-> 2, plans |-> 0, planex |-> 0, sets |-> 0, sessions |-> 1,
              calendar |-> 0]
    /\ workout_calendar = {}
    /\ runner = NoRunner
    /\ req = NoRequest
    /\ res = NoResponse
    /\ pre = Snapshot
    /\ inflight = <<>>

\* Plans are made, sets are saved, exercises are taken out of templates and
\* deleted, one request at a time.
NextRefs ==
    \/ \E base \in TemplateIds : CreatePlan(base, "", 0)
    \/ \E t \in TemplateIds, e \in ExerciseIds : RemoveExercise(t, e)
    \/ \E e \in ExerciseIds :
         BulkSets(1, e, TRUE,
                  <<[set_number |-> JsNum(1), weight |-> JsNum(50), reps |-> JsNull,
                     rpe |-> JsNull]>>, 0) /\ UNCHANGED runner
    \/ \E id \in ExerciseIds : DeleteExercise(id)
    \/ \E id \in ExerciseIds : DeleteExerciseRefused(id)

SpecRefs == InitRefs /\ [][NextRefs]_vars

\* ------------------------------------ transactions and requests in parallel
\* POST /api/sets/bulk and DELETE /api/plans/:id run their statements between
\* BEGIN and COMMIT on a client of their own; POST /api/sessions sends its two
\* statements through pool.query. No handler sets an isolation level, so a
\* transaction's writes are seen by the others from its COMMIT on, and each
\* statement reads what is committed when it runs (PostgreSQL's READ
\* COMMITTED). A request's uncommitted writes are held in its record: matched
\* (the rows its delete found), del and ins (set rows deleted and inserted),
\* detach (sessions to set plan_id null on), delPlanEx and delPlan.
TxRequest(kind, s, e, L, plan) ==
    [kind |-> kind, pc |-> IF kind = "session" THEN "lookup" ELSE "begin",
     s |-> s, e |-> e, L |-> L, i |-> 1, plan |-> plan, templateId |-> NULL,
     matched |-> {}, del |-> {}, ins |-> {}, detach |-> {}, delPlanEx |-> {},
     delPlan |-> {}, status |-> 0]

\* A request arrives with a valid body: a bulk save, a session started from a
\* plan, or the deletion of a plan.
TxStart(kind, s, e, L, plan) ==
    /\ Len(inflight) < MaxRequests
    /\ \/ kind = "bulk" /\ plan = NULL /\ ~Falsy(s) /\ ~Falsy(e)
       \/ kind \in {"session", "plan"} /\ s = NULL /\ e = NULL /\ L = <<>>
          /\ ~Falsy(asInt(plan))
    /\ inflight' = Append(inflight, TxRequest(kind, s, e, L, plan))
    /\ UNCHANGED <<tables, seq, req, res, pre, runner>>

\* pool.connect() and BEGIN.
TxBegin(r) ==
    /\ inflight[r].pc = "begin"
    /\ Goto(r, IF inflight[r].kind = "bulk" THEN "scan" ELSE "detach")
    /\ UNCHANGED <<tables, seq, req, res, pre, runner>>

\* A statement of a transaction throws: ROLLBACK, answer 500. Sequence values
\* already drawn are not given back.
TxThrow(r) ==
    /\ inflight[r].pc \in {"scan", "delete", "insert", "detach", "delplanex", "delplan",
                           "commit"}
    /\ inflight' = [inflight EXCEPT ![r].pc = "done", ![r].status = 500,
                                    ![r].del = {}, ![r].ins = {}, ![r].detach = {},
                                    ![r].delPlanEx = {}, ![r].delPlan = {}]
    /\ UNCHANGED <<tables, seq, req, res, pre, runner>>

\* The rows another request has deleted and not yet committed: a delete that
\* meets one of them waits for that request to end.
LockedSets(r) ==
    UNION {inflight[q].del : q \in {x \in DOMAIN inflight : x # r /\ inflight[x].pc # "done"}}

\* bulk: the delete statement starts and finds the committed rows of the pair.
BulkScan(r) ==
    /\ inflight[r].pc = "scan"
    /\ inflight' = [inflight EXCEPT
                      ![r].matched = {x.id : x \in {y \in exercise_sets :
                                                     /\ y.session_id = inflight[r].s
                                                     /\ y.exercise_id = inflight[r].e}},
                      ![r].pc = "delete"]
    /\ UNCHANGED <<tables, seq, req, res, pre, runner>>

\* bulk: the delete statement ends: of the rows it found it deletes those that
\* are still there.
BulkDelete(r) ==
    /\ inflight[r].pc = "delete"
    /\ inflight[r].matched \cap LockedSets(r) = {}
    /\ inflight' = [inflight EXCEPT
                      ![r].del = inflight[r].matched \cap {x.id : x \in exercise_sets},
                      ![r].pc = "insert"]
    /\ UNCHANGED <<tables, seq, req, res, pre, runner>>

\* bulk: one insert of the loop.
BulkInsert(r) ==
    /\ inflight[r].pc = "insert"
    /\ inflight[r].i <= Len(inflight[r].L)
    /\ seq.sets < MaxSetId
    /\ seq' = [seq EXCEPT !.sets = @ + 1]
    /\ inflight' = [inflight EXCEPT
                      ![r].ins = @ \cup {SetRow(seq.sets + 1, inflight[r].s, inflight[r].e,
                                                inflight[r].L[inflight[r].i])},
                      ![r].i = @ + 1]
    /\ UNCHANGED <<tables, req, res, pre, runner>>

\* bulk: COMMIT and the 200 answer.
BulkCommit(r) ==
    /\ inflight[r].pc = "insert"
    /\ inflight[r].i > Len(inflight[r].L)
    /\ exercise_sets' = {x \in exercise_sets : x.id \notin inflight[r].del} \cup inflight[r].ins
    /\ Finish(r, 200)
    /\ UNCHANGED <<exercises, workout_templates, workout_template_exercises, workout_plans,
                   workout_plan_exercises, workout_sessions, workout_calendar, seq, req, res,
                   pre, runner>>

\* session: the lookup of the plan.
SessionLookup(r) ==
    /\ inflight[r].pc = "lookup"
    /\ LET found == {x \in workout_plans : x.id = asInt(inflight[r].plan)}
       IN IF found = {} THEN Finish(r, 404)
          ELSE IF Falsy(asInt((CHOOSE x \in found : TRUE).base_template_id))
            THEN Finish(r, 500)
          ELSE inflight' = [inflight EXCEPT
                              ![r].templateId =
                                 asInt((CHOOSE x \in found : TRUE).base_template_id),
                              ![r].pc = "insert"]
    /\ UNCHANGED <<tables, seq, req, res, pre, runner>>

\* session: the insert. src/ holds no schema: when the database enforces a
\* foreign key from workout_sessions.plan_id to workout_plans (enforced), the
\* insert waits while the plan's deletion is uncommitted and throws when the
\* plan is gone; the handler's catch answers 500.
SessionInsert(r, enforced) ==
    /\ inflight[r].pc = "insert"
    /\ inflight[r].kind = "session"
    /\ LET planId == asInt(inflight[r].plan)
           deleting == \E q \in DOMAIN inflight :
                         q # r /\ inflight[q].pc # "done" /\ planId \in inflight[q].delPlan
       IN IF enforced /\ ~\E x \in workout_plans : x.id = planId
            THEN /\ Finish(r, 500)
                 /\ UNCHANGED <<workout_sessions, seq>>
            ELSE /\ ~(enforced /\ deleting)
                 /\ seq.sessions < MaxSessionId
                 /\ seq' = [seq EXCEPT !.sessions = @ + 1]
                 /\ workout_sessions' = workout_sessions \cup
                      {[id |-> seq.sessions + 1, workout_template_id |-> inflight[r].templateId,
                        plan_id |-> planId, performed_on |-> 1]}
                 /\ Finish(r, 200)
    /\ UNCHANGED <<exercises, workout_templates, workout_template_exercises, workout_plans,
                   workout_plan_exercises, exercise_sets, workout_calendar, req, res, pre,
                   runner>>

\* plan: update workout_sessions set plan_id = null where plan_id = $1.
PlanDetach(r) ==
    /\ inflight[r].pc = "detach"
    /\ inflight' = [inflight EXCEPT
                      ![r].detach = {x.id : x \in {y \in workout_sessions :
                                                    y.plan_id = asInt(inflight[r].plan)}},
                      ![r].pc = "delplanex"]
    /\ UNCHANGED <<tables, seq, req, res, pre, runner>>

\* plan: delete from workout_plan_exercises where plan_id = $1.
PlanDeleteExercises(r) ==
    /\ inflight[r].pc = "delplanex"
    /\ inflight' = [inflight EXCEPT
                      ![r].delPlanEx =
                         {x.id : x \in PlanExercisesOf(workout_plan_exercises,
                                                       asInt(inflight[r].plan))},
                      ![r].pc = "delplan"]
    /\ UNCHANGED <<tables, seq, req, res, pre, runner>>

\* plan: delete from workout_plans where id = $1. With the foreign key
\* enforced the delete throws when a committed session that this transaction
\* has not detached refers to the plan (TxThrow's ROLLBACK and 500).
PlanDeleteRow(r, enforced) ==
    /\ inflight[r].pc = "delplan"
    /\ LET planId == asInt(inflight[r].plan)
           referred == \E x \in workout_sessions :
                         x.plan_id = planId /\ x.id \notin inflight[r].detach
       IN IF enforced /\ referred
            THEN inflight' = [inflight EXCEPT ![r].pc = "done", ![r].status = 500,
                                              ![r].detach = {}, ![r].delPlanEx = {}]
            ELSE inflight' = [inflight EXCEPT ![r].delPlan = {planId}, ![r].pc = "commit"]
    /\ UNCHANGED <<tables, seq, req, res, pre, runner>>

\* plan: COMMIT and the 200 answer.
PlanCommit(r) ==
    /\ inflight[r].pc = "commit"
    /\ workout_sessions' =
         {IF x.id \in inflight[r].detach THEN [x EXCEPT !.plan_id = NULL] ELSE x :
            x \in workout_sessions}
    /\ workout_plan_exercises' =
         {x \in workout_plan_exercises : x.id \notin inflight[r].delPlanEx}
    /\ workout_plans' = {x \in workout_plans : x.id \notin inflight[r].delPlan}
    /\ Finish(r, 200)
    /\ UNCHANGED <<exercises, workout_templates, workout_template_exercises, exercise_sets,
                   workout_calendar, seq, req, res, pre, runner>>

\* The two lists the clients save for session 1's Squat.
TxLists ==
    {<<[set_number |-> JsNum(1), weight |-> JsNum(50), reps |-> JsNull, rpe |-> JsNull]>>,
     <<[set_number |-> JsNum(2), weight |-> JsNull, reps |-> JsNum(3), rpe |-> JsNull]>>}

\* Plan 1 (from template 1, one exercise) exists; session 1 was run from
\* template 1 and holds one stored set of Squat.
InitTx ==
    /\ exercises = SeedExercises
    /\ workout_templates = SeedTemplates
    /\ workout_template_exercises = SeedLinks
    /\ workout_plans = {[id |-> 1, name |-> "A", base_template_id |-> 1]}
    /\ workout_plan_exercises =
         {PlanExerciseRow(1, 1, [exercise_id |-> 1, sort_order |-> 1])}
    /\ workout_sessions =
         {[id |-> 1, workout_template_id |-> 1, plan_id |-> NULL, performed_on |-> 1]}
    /\ exercise_sets =
         {SetRow(1, 1, 1, [set_number |-> JsNum(3), weight |-> JsNum(50), reps |-> JsNull,
                           rpe |-> JsNull])}
    /\ seq = [links |-> 3, plans |-> 1, planex |-> 1, sets |-> 1, sessions |-> 1,
              calendar |-> 0]
    /\ workout_calendar = {}
    /\ runner = NoRunner
    /\ req = NoRequest
    /\ res = NoResponse
    /\ pre = Snapshot
    /\ inflight = <<>>

\* Bulk saves of one pair, sessions started from plan 1 and deletions of plan 1
\* arrive at any time; their statements interleave.
NextTx ==
    \/ \E L \in TxLists : TxStart("bulk", 1, 1, L, NULL)
    \/ \E kind \in {"session", "plan"} : TxStart(kind, NULL, NULL, <<>>, 1)
    \/ \E r \in DOMAIN inflight : TxBegin(r)
    \/ \E r \in DOMAIN inflight : TxThrow(r)
    \/ \E r \in DOMAIN inflight : BulkScan(r)
    \/ \E r \in DOMAIN inflight : BulkDelete(r)
    \/ \E r \in DOMAIN inflight : BulkInsert(r)
    \/ \E r \in DOMAIN inflight : BulkCommit(r)
    \/ \E r \in DOMAIN inflight : SessionLookup(r)
    \/ \E r \in DOMAIN inflight, enforced \in BOOLEAN : SessionInsert(r, enforced)
    \/ \E r \in DOMAIN inflight : PlanDetach(r)
    \/ \E r \in DOMAIN inflight : PlanDeleteExercises(r)
    \/ \E r \in DOMAIN inflight, enforced \in BOOLEAN : PlanDeleteRow(r, enforced)
    \/ \E r \in DOMAIN inflight : PlanCommit(r)

SpecTx == InitTx /\ [][NextTx]_vars

\* ------------------------------------------------- the client's runner
\* The React state of the workout runner (src/client/src/App.jsx):
\* selectedWorkoutId, sessionId, exerciseIndex, runnerExercises (here the
\* exercise ids), setsByExercise (the text typed into each set row; <<>> where
\* the object has no key), saveStatusByExercise ("idle" where the object has no
\* key). saving is the Prev, Next or Finish handler that waits for its save,
\* with the values its closure holds; one handler waits at a time. handler
\* names the handler that took the last step.
makeEmptySets(count) ==
    [i \in 1..count |-> [set_number |-> i, weight |-> "", reps |-> "", rpe |-> ""]]

\* resetRunnerState: the three localStorage keys are removed; the selected
\* workout and a waiting handler stay.
resetRunnerState(r) ==
    [NoRunner EXCEPT !.selectedWorkoutId = r.selectedWorkoutId, !.saving = r.saving]

\* The persist effects that run after a handler has changed the state from old
\* to new: each writes its key when its dependency has changed, and removes it
\* when the session or the workout has become null.
Persisted(old, new) ==
    [new EXCEPT !.ls =
       [sessionId |-> IF new.sessionId # old.sessionId
                        THEN new.sessionId ELSE new.ls.sessionId,
        workoutId |-> IF new.selectedWorkoutId # old.selectedWorkoutId
                        THEN new.selectedWorkoutId ELSE new.ls.workoutId,
        exerciseIndex |-> IF new.exerciseIndex # old.exerciseIndex
                            THEN new.exerciseIndex ELSE new.ls.exerciseIndex]]

\* The state once a session was created and loadRunner and the effect that
\* loads the session's sets have run: index 0, the payload's exercises, blank
\* rows for each of them. The save statuses are kept.
Loaded(r, session, payload) ==
    LET ids == [i \in DOMAIN payload |-> payload[i].exercise_id]
    IN [r EXCEPT !.sessionId = session, !.exerciseIndex = 0, !.runnerExercises = ids,
                 !.setsByExercise =
                    [e \in DOMAIN r.setsByExercise |->
                       IF \E i \in DOMAIN ids : ids[i] = e
                         THEN makeEmptySets(RunnerSets) ELSE <<>>]]

\* currentExercise is there (runnerExercises[exerciseIndex] || null); its
\* exercise_id; status; isLast.
hasCurrentExercise == runner.exerciseIndex + 1 \in DOMAIN runner.runnerExercises
currentExercise == runner.runnerExercises[runner.exerciseIndex + 1]
status == IF hasCurrentExercise THEN runner.saveStatusByExercise[currentExercise] ELSE "idle"
isLast == runner.runnerExercises # <<>> /\
          runner.exerciseIndex = Len(runner.runnerExercises) - 1

\* The runner card is rendered when sessionId && currentExercise.
RunnerShown == runner.sessionId # NULL /\ hasCurrentExercise

\* r.weight === "" ? null : Number(r.weight)
ClientNumber(text) == IF text = "" THEN JsNull ELSE JsNum(ParseDecimal(text))

\* saveExercise's cleaned: the rows with their fields converted, without the
\* rows that are blank throughout.
Cleaned(rows) ==
    LET conv == [i \in DOMAIN rows |->
                   [set_number |-> JsNum(rows[i].set_number),
                    weight |-> ClientNumber(rows[i].weight),
                    reps |-> ClientNumber(rows[i].reps),
                    rpe |-> ClientNumber(rows[i].rpe)]]
        Filled(x) == x.weight # JsNull \/ x.reps # JsNull \/ x.rpe # JsNull
    IN SelectSeq(conv, Filled)

\* What Prev, Next and Finish do once saveExercise has returned true; lastIdx
\* is runnerExercises.length - 1 as the handler's closure has it.
Applied(op, lastIdx, r) ==
    CASE op = "prev" -> [r EXCEPT !.exerciseIndex = Max({@ - 1, 0})]
      [] op = "next" -> [r EXCEPT !.exerciseIndex = Min({@ + 1, lastIdx})]
      [] op = "finish" -> resetRunnerState(r)

\* The runner when the save that a handler waited for has settled.
AfterSave(ok, r) ==
    LET done == [r EXCEPT !.saving = NoSave, !.handler = r.saving.op]
    IN IF ok
         THEN Applied(r.saving.op, r.saving.lastIdx,
                      [done EXCEPT !.saveStatusByExercise[r.saving.exId] = "idle"])
         ELSE [done EXCEPT !.saveStatusByExercise[r.saving.exId] = "error"]

\* updateSetField on a weight of the current exercise.
updateSetField(setIdx, value) ==
    /\ RunnerShown
    /\ setIdx \in DOMAIN runner.setsByExercise[currentExercise]
    /\ runner' = [runner EXCEPT !.setsByExercise[currentExercise][setIdx].weight = value,
                                !.handler = "type"]
    /\ UNCHANGED <<tables, seq, req, res, pre, inflight>>

\* prevExercise, nextExercise and finishWorkout up to the first await of
\* saveExercise: with nothing to save they go on at once, else the status
\* becomes "saving" and the handler waits for the answer. The buttons are
\* disabled while the current exercise's status is "saving".
Clicked(op) ==
    /\ RunnerShown
    /\ status # "saving"
    /\ runner.saving = NoSave
    /\ LET exId == currentExercise
           cleaned == Cleaned(runner.setsByExercise[exId])
           lastIdx == Len(runner.runnerExercises) - 1
       IN runner' =
            IF cleaned = <<>>
              THEN Persisted(runner,
                     Applied(op, lastIdx,
                             [runner EXCEPT !.saveStatusByExercise[exId] = "idle",
                                            !.handler = op]))
              ELSE [runner EXCEPT !.saveStatusByExercise[exId] = "saving",
                                  !.handler = op,
                                  !.saving = [op |-> op, sessionId |-> runner.sessionId,
                                              exId |-> exId, sets |-> cleaned,
                                              lastIdx |-> lastIdx]]
    /\ UNCHANGED <<tables, seq, req, res, pre, inflight>>

\* The Prev button is disabled on the first exercise; the last exercise shows
\* Finish in the place of Next.
prevExercise == runner.exerciseIndex # 0 /\ Clicked("prev")
nextExercise == ~isLast /\ Clicked("next")
finishWorkout == isLast /\ Clicked("finish")

\* The fetch of saveExercise settles: the server has handled POST
\* /api/sets/bulk (statement number fault failing), or the request never got an
\* answer (status 0) and fetch rejected.
SaveSettles(fault, reached) ==
    /\ runner.saving # NoSave
    /\ IF reached
         THEN BulkSets(runner.saving.sessionId, runner.saving.exId, TRUE,
                       runner.saving.sets, fault)
         ELSE /\ fault = 0
              /\ Respond(RouteBulk,
                         [session_id |-> runner.saving.sessionId,
                          exercise_id |-> runner.saving.exId,
                          isArray |-> TRUE, sets |-> runner.saving.sets, fault |-> 0],
                         0, [ok |-> FALSE, inserted |-> 0])
              /\ UNCHANGED <<tables, seq, inflight>>
    /\ runner' = Persisted(runner, AfterSave(res'.status = 200, runner))

\* The workout select of the Run view changes: the runner state is reset.
selectWorkout(v) ==
    /\ v # runner.selectedWorkoutId
    /\ runner' = Persisted(runner, [resetRunnerState(runner) EXCEPT
                                       !.selectedWorkoutId = v, !.handler = "select"])
    /\ UNCHANGED <<tables, seq, req, res, pre, inflight>>

\* startSession: POST /api/sessions for the selected workout, then loadRunner
\* with the new session's id.
startSession ==
    /\ runner.selectedWorkoutId # NULL
    /\ CreateSession(runner.selectedWorkoutId, NULL, 1)
    /\ IF res'.status = 200
         THEN \E payload \in RunnerExercises(
                               LinksOf(workout_template_exercises,
                                       runner.selectedWorkoutId)) :
                runner' = Persisted(runner,
                            [Loaded(runner, seq'.sessions, payload) EXCEPT
                               !.handler = "start",
                               !.ls = [sessionId |-> seq'.sessions,
                                       workoutId |-> runner.selectedWorkoutId,
                                       exerciseIndex |-> 0]])
         ELSE runner' = [runner EXCEPT !.handler = "start"]

\* "Yes, quit" of the Quit modal (the Quit button is disabled while the current
\* exercise is being saved): DELETE /api/sessions/:id with statement number
\* fault failing, or the request never got an answer and fetch rejected; then
\* resetRunnerState, whatever the answer was.
quitWorkoutConfirmed(fault, reached) ==
    /\ RunnerShown
    /\ status # "saving"
    /\ IF reached
         THEN DeleteSession(runner.sessionId, fault)
         ELSE /\ fault = 0
              /\ Respond(RouteDeleteSession, [id |-> runner.sessionId, fault |-> 0],
                         0, [ok |-> FALSE, error |-> NoError])
              /\ UNCHANGED <<tables, seq, inflight>>
    /\ runner' = Persisted(runner, [resetRunnerState(runner) EXCEPT !.handler = "quit"])

\* String(row.weight) on the numbers the model stores.
String(n) ==
    CASE n = 1 -> "1"
      [] n = 2 -> "2"
      [] n = 3 -> "3"
      [] n = 50 -> "50"
      [] OTHER -> "NaN"

\* row.weight == null ? "" : String(row.weight)
RowText(v) == IF v = NULL THEN "" ELSE String(v)

\* padToTargetSets: blank rows are appended up to targetSets, then every row
\* is numbered by its position.
padToTargetSets(existingRows, targetSets) ==
    LET n == Max({Len(existingRows), targetSets})
    IN [i \in 1..n |->
          IF i <= Len(existingRows)
            THEN [existingRows[i] EXCEPT !.set_number = i]
            ELSE [set_number |-> i, weight |-> "", reps |-> "", rpe |-> ""]]

\* The rows the load-sets effect shows for an exercise: the session's stored
\* rows in set_number order (the client stores no two with one number), padded;
\* blank rows when nothing is stored.
LoadedSets(session, e) ==
    LET stored == {r \in exercise_sets : r.session_id = session /\ r.exercise_id = e}
        sorted == CHOOSE f \in Perms(stored) :
                    \A i, j \in DOMAIN f : i < j => f[i].set_number <= f[j].set_number
        existing == [i \in DOMAIN sorted |->
                       [set_number |-> sorted[i].set_number,
                        weight |-> RowText(sorted[i].weight),
                        reps |-> RowText(sorted[i].reps),
                        rpe |-> RowText(sorted[i].rpe)]]
    IN IF stored = {} THEN makeEmptySets(RunnerSets)
       ELSE padToTargetSets(existing, RunnerSets)

\* The exercise rows GET /api/sessions/:id/runner answers for a stored session.
PayloadRows(session) ==
    IF ~Falsy(session.plan_id) /\ \E x \in workout_plans : x.id = session.plan_id
      THEN PlanExercisesOf(workout_plan_exercises, session.plan_id)
      ELSE LinksOf(workout_template_exercises, session.workout_template_id)

\* The page is loaded again while no handler waits for a save: the state starts
\* from its initial values, the restore effect reads the three keys, the
\* persist effects write them back, loadRunner fetches the runner payload of
\* the restored session and the load-sets effect fetches its stored sets.
mount ==
    /\ runner.saving = NoSave
    /\ LET saved == runner.ls
           idx == IF saved.exerciseIndex = NULL THEN 0 ELSE saved.exerciseIndex
           found == {x \in workout_sessions : x.id = saved.sessionId}
           base == [NoRunner EXCEPT !.selectedWorkoutId = saved.workoutId,
                                    !.sessionId = saved.sessionId,
                                    !.exerciseIndex = idx,
                                    !.ls = [saved EXCEPT !.exerciseIndex = idx],
                                    !.handler = "mount"]
       IN IF saved.sessionId = NULL \/ found = {}
            THEN runner' = base
            ELSE \E payload \in RunnerExercises(PayloadRows(CHOOSE x \in found : TRUE)) :
                   LET ids == {payload[i].exercise_id : i \in DOMAIN payload}
                   IN runner' =
                        [base EXCEPT
                           !.runnerExercises =
                              [i \in DOMAIN payload |-> payload[i].exercise_id],
                           !.setsByExercise =
                              [e \in DOMAIN base.setsByExercise |->
                                 IF e \in ids THEN LoadedSets(saved.sessionId, e)
                                 ELSE <<>>]]
    /\ UNCHANGED <<tables, seq, req, res, pre, inflight>>

\* Template 1 (Squat, Bench) is selected, session 1 has been started from it
\* and its runner payload loaded.
InitRunner ==
    /\ exercises = SeedExercises
    /\ workout_templates = SeedTemplates
    /\ workout_template_exercises = SeedLinks
    /\ workout_plans = {}
    /\ workout_plan_exercises = {}
    /\ workout_sessions =
         {[id |-> 1, workout_template_id |-> 1, plan_id |-> NULL, performed_on |-> 1]}
    /\ exercise_sets = {}
    /\ seq = [links |-> 3, plans |-> 0, planex |-> 0, sets |-> 0, sessions |-> 1,
              calendar |-> 0]
    /\ workout_calendar = {}
    /\ runner = Loaded([NoRunner EXCEPT !.selectedWorkoutId = 1,
                                        !.ls = [sessionId |-> 1, workoutId |-> 1,
                                                exerciseIndex |-> 0]],
                       1, <<[exercise_id |-> 1], [exercise_id |-> 2]>>)
    /\ req = NoRequest
    /\ res = NoResponse
    /\ pre = Snapshot
    /\ inflight = <<>>

\* The user types weights, taps Prev, Next and Finish, picks another workout
\* and starts sessions; saves succeed or fail.
NextRunner ==
    \/ \E setIdx \in 1..RunnerSets, value \in {"", "50"} : updateSetField(setIdx, value)
    \/ prevExercise
    \/ nextExercise
    \/ finishWorkout
    \/ \E fault \in 0..1, reached \in BOOLEAN : SaveSettles(fault, reached)
    \/ \E v \in {1, 2} : selectWorkout(v)
    \/ startSession
    \/ \E fault \in 0..3, reached \in BOOLEAN : quitWorkoutConfirmed(fault, reached)
    \/ mount

SpecRunner == InitRunner /\ [][NextRunner]_vars

\* ------------------------------------------------------- exercise fields
\* A body field that is not sent (undefined).
Absent == [t |-> "undefined", n |-> 0, s |-> ""]

\* null in a text column or a text parameter.
SqlNull == "<null>"

\* v == null
IsNullish(v) == v.t \in {"null", "undefined"}

\* String.prototype.trim on the strings the model sends.
Trim(str) ==
    CASE str = " " -> ""
      [] str = " Press " -> "Press"
      [] OTHER -> str

\* req.body.name == null ? null : String(req.body.name).trim(), and likewise
\* tracking_type and time_unit without the trim.
TrimmedOrNull(v) == IF IsNullish(v) THEN SqlNull ELSE Trim(v.s)
TextOrNull(v) == IF IsNullish(v) THEN SqlNull ELSE v.s

\* info_url and notes: null when not sent or blank, else the trimmed string.
BlankToNull(v) == IF IsNullish(v) \/ Trim(v.s) = "" THEN SqlNull ELSE Trim(v.s)

\* coalesce($1, name)
coalesce(a, b) == IF a # SqlNull THEN a ELSE b

\* The set clause of the update: name, tracking_type and time_unit through
\* coalesce, info_url and notes as given.
PatchedExercise(x, name, tracking_type, time_unit, info_url, notes) ==
    [x EXCEPT !.name = coalesce(name, @),
              !.tracking_type = coalesce(tracking_type, @),
              !.time_unit = coalesce(time_unit, @),
              !.info_url = info_url,
              !.notes = notes]

RoutePatchExercise == "PATCH /api/exercises/:id"

\* PATCH /api/exercises/:id: one update through pool.query inside a try; the
\* update fails when fault = 1.
PatchExercise(id, body, fault) ==
    /\ inflight = <<>>
    /\ LET input == [id |-> id, body |-> body, fault |-> fault]
           name == TrimmedOrNull(body.name)
           tracking_type == TextOrNull(body.tracking_type)
           time_unit == TextOrNull(body.time_unit)
           info_url == BlankToNull(body.info_url)
           notes == BlankToNull(body.notes)
           found == {x \in exercises : x.id = asInt(id)}
       IN IF tracking_type # SqlNull /\ tracking_type \notin {"weight_reps", "time"}
            THEN /\ fault = 0
                 /\ Respond(RoutePatchExercise, input, 400, {})
                 /\ UNCHANGED exercises
          ELSE IF time_unit # SqlNull /\ time_unit \notin {"seconds", "minutes"}
            THEN /\ fault = 0
                 /\ Respond(RoutePatchExercise, input, 400, {})
                 /\ UNCHANGED exercises
          ELSE IF fault = 1
            THEN /\ Respond(RoutePatchExercise, input, 500, {})
                 /\ UNCHANGED exercises
          ELSE /\ exercises' =
                    {IF x \in found
                       THEN PatchedExercise(x, IF name # SqlNull /\ name # "" THEN name ELSE SqlNull,
                                            tracking_type, time_unit, info_url, notes)
                       ELSE x : x \in exercises}
               /\ IF found = {}
                    THEN Respond(RoutePatchExercise, input, 404, {})
                    ELSE Respond(RoutePatchExercise, input, 200,
                                 {x \in exercises' : x.id = asInt(id)})
    /\ UNCHANGED <<workout_templates, workout_template_exercises, workout_plans,
                   workout_plan_exercises, workout_sessions, exercise_sets, seq, inflight,
                   workout_calendar, runner>>

\* The request bodies: each field not sent or sent (name, tracking_type and
\* time_unit with a valid and an invalid value).
PatchBodies ==
    [name : {Absent, JsStr(" Press "), JsStr(" ")},
     tracking_type : {Absent, JsStr("time"), JsStr("reps")},
     time_unit : {Absent, JsStr("minutes"), JsStr("hours")},
     info_url : {Absent, JsStr("http://y")},
     notes : {Absent, JsStr("wide")}]

\* Two exercises with every field filled in.
InitExercises ==
    /\ exercises =
         {[id |-> 1, name |-> "Squat", tracking_type |-> "weight_reps",
           time_unit |-> "seconds", info_url |-> "http://x", notes |-> "deep"],
          [id |-> 2, name |-> "Plank", tracking_type |-> "time",
           time_unit |-> "seconds", info_url |-> "http://p", notes |-> "hold"]}
    /\ workout_templates = SeedTemplates
    /\ workout_template_exercises = {}
    /\ workout_plans = {}
    /\ workout_plan_exercises = {}
    /\ workout_sessions = {}
    /\ exercise_sets = {}
    /\ seq = [links |-> 0, plans |-> 0, planex |-> 0, sets |-> 0, sessions |-> 0,
              calendar |-> 0]
    /\ workout_calendar = {}
    /\ runner = NoRunner
    /\ req = NoRequest
    /\ res = NoResponse
    /\ pre = Snapshot
    /\ inflight = <<>>

\* Exercise 1 and an exercise that is not there are patched, one request at a
\* time; the update may fail.
NextExercises ==
    \E id \in {1, 3}, body \in PatchBodies, fault \in 0..1 : PatchExercise(id, body, fault)

SpecExercises == InitExercises /\ [][NextExercises]_vars

\* ------------------------------------------------------------------ claims
RouteAdd == "POST /api/workout-templates/:id/exercises"
RouteRemove == "DELETE /api/workout-templates/:id/exercises/:exerciseId"
RouteMove == "POST /api/workout-templates/:id/exercises/:exerciseId/move"

\* The sort_order values of template t are exactly 1..N.
Contiguous(rows, t) ==
    {r.sort_order : r \in LinksOf(rows, t)} = 1..Cardinality(LinksOf(rows, t))

\* C2: requests served one at a time on templates that start empty keep every
\* template's sort_order values exactly 1..N, and a remove leaves exactly the
\* other rows, renumbered 1..N in their previous relative order.
C2_SortOrderContiguous ==
    /\ \A t \in TemplateIds : Contiguous(workout_template_exercises, t)
    /\ req.route = RouteRemove =>
         LET before == pre.workout_template_exercises
             t == req.input.id
             kept == {r \in before : ~(r.workout_template_id = t
                                       /\ r.exercise_id = req.input.exercise_id)}
             old(r) == CHOOSE o \in before : o.id = r.id
         IN /\ {r.id : r \in workout_template_exercises} = {r.id : r \in kept}
            /\ \A r \in workout_template_exercises :
                 /\ r.exercise_id = old(r).exercise_id
                 /\ r.workout_template_id = old(r).workout_template_id
                 /\ r.workout_template_id # t => r = old(r)
            /\ \A a, b \in LinksOf(workout_template_exercises, t) :
                 a.sort_order < b.sort_order <=> old(a).sort_order < old(b).sort_order

\* A remove took a row that was not the last of a template of three.
C2_Witness ==
    /\ req.route = RouteRemove
    /\ Cardinality(LinksOf(pre.workout_template_exercises, req.input.id)) = 3
    /\ Cardinality(LinksOf(workout_template_exercises, req.input.id)) = 2
    /\ \E r \in LinksOf(pre.workout_template_exercises, req.input.id) :
         r.exercise_id = req.input.exercise_id /\ r.sort_order = 1

\* C3: a successful move exchanges the sort_order of the addressed exercise with
\* that of its nearest neighbour in the direction moved and changes no other row;
\* with no neighbour there nothing changes and the template comes back as it was.
C3_MoveSwapsTwo ==
    (req.route = RouteMove /\ res.status = 200) =>
      LET before == pre.workout_template_exercises
          t == req.input.id
          c == CHOOSE r \in LinksOf(before, t) : r.exercise_id = req.input.exercise_id
          side == IF req.input.direction = "up"
                    THEN {r \in LinksOf(before, t) : r.sort_order < c.sort_order}
                    ELSE {r \in LinksOf(before, t) : r.sort_order > c.sort_order}
          between(n) == {r \in side : IF req.input.direction = "up"
                                        THEN r.sort_order > n.sort_order
                                        ELSE r.sort_order < n.sort_order}
      IN /\ req.input.direction \in {"up", "down"}
         /\ \E r \in LinksOf(before, t) : r.exercise_id = req.input.exercise_id
         /\ IF side = {}
              THEN /\ workout_template_exercises = before
                   /\ res.body = {[exercise_id |-> r.exercise_id, sort_order |-> r.sort_order] :
                                    r \in LinksOf(before, t)}
              ELSE \E n \in side :
                     /\ between(n) = {}
                     /\ workout_template_exercises =
                          (before \ {c, n}) \cup {[c EXCEPT !.sort_order = n.sort_order],
                                                  [n EXCEPT !.sort_order = c.sort_order]}

\* The middle exercise of three was moved (a swap), and an end one was moved
\* outwards (nothing to swap with): here the swap.
C3_Witness ==
    /\ req.route = RouteMove
    /\ res.status = 200
    /\ Cardinality(LinksOf(pre.workout_template_exercises, req.input.id)) = 3
    /\ workout_template_exercises # pre.workout_template_exercises
    /\ \E r \in LinksOf(pre.workout_template_exercises, req.input.id) :
         r.exercise_id = req.input.exercise_id /\ r.sort_order = 3
                                               /\ req.input.direction = "up"

\* The rows of one (session, exercise) pair.
SetsOf(rows, s, e) == {r \in rows : r.session_id = s /\ r.exercise_id = e}

\* The stored value a JSON value of the model stands for.
Stored(v) ==
    CASE v = JsNull -> NULL
      [] v = JsNum(1) -> 1
      [] v = JsStr("2") -> 2
      [] v = JsNum(8) -> 8
      [] v = JsNum(50) -> 50
      [] v = JsStr("50") -> 50
      [] OTHER -> NaN

\* C1: after a successful bulk save for (s, e) with sets L, the pair's rows are
\* one row per element of L with that element's values, none of the pair's
\* earlier rows remains, and every other pair's rows are as they were.
C1_BulkReplaces ==
    (req.route = RouteBulk /\ res.status = 200) =>
      LET s == req.input.session_id
          e == req.input.exercise_id
          L == req.input.sets
          mine == SetsOf(exercise_sets, s, e)
      IN /\ Cardinality(mine) = Len(L)
         /\ \E f \in Perms(mine) : \A i \in 1..Len(L) :
              /\ f[i].set_number = Stored(L[i].set_number)
              /\ f[i].weight = Stored(L[i].weight)
              /\ f[i].reps = Stored(L[i].reps)
              /\ f[i].rpe = Stored(L[i].rpe)
         /\ \A r \in mine : \A o \in pre.exercise_sets : o.id # r.id
         /\ exercise_sets \ mine = pre.exercise_sets \ SetsOf(pre.exercise_sets, s, e)
         /\ res.body.inserted = Len(L)

\* A non-empty list replaced earlier rows of the pair while another pair had rows.
C1_Witness ==
    /\ req.route = RouteBulk
    /\ res.status = 200
    /\ Len(req.input.sets) >= 1
    /\ SetsOf(pre.exercise_sets, req.input.session_id, req.input.exercise_id) # {}
    /\ pre.exercise_sets # SetsOf(pre.exercise_sets, req.input.session_id, req.input.exercise_id)
    /\ \E r \in exercise_sets : r.weight = NULL

C4_DeletePlanKeepsSessions ==
    (req.route = RouteDeletePlan /\ res.status = 200) =>
      LET p == req.input.id
      IN /\ \A x \in workout_plans : x.id # p
         /\ \A r \in workout_plan_exercises : r.plan_id # p
         /\ workout_plans = {x \in pre.workout_plans : x.id # p}
         /\ workout_plan_exercises = {r \in pre.workout_plan_exercises : r.plan_id # p}
         /\ {x.id : x \in workout_sessions} = {x.id : x \in pre.workout_sessions}
         /\ Cardinality(workout_sessions) = Cardinality(pre.workout_sessions)
         /\ \A o \in pre.workout_sessions : \E x \in workout_sessions :
              /\ x.id = o.id
              /\ x.workout_template_id = o.workout_template_id
              /\ x.performed_on = o.performed_on
              /\ x.plan_id = IF o.plan_id = p THEN NULL ELSE o.plan_id
         /\ exercise_sets = pre.exercise_sets

\* The deleted plan had exercise rows and a session with a logged set, and another
\* plan existed.
C4_Witness ==
    /\ req.route = RouteDeletePlan
    /\ res.status = 200
    /\ \E x \in pre.workout_plans : x.id = req.input.id
    /\ \E r \in pre.workout_plan_exercises : r.plan_id = req.input.id
    /\ \E x \in pre.workout_sessions :
         /\ x.plan_id = req.input.id
         /\ \E r \in exercise_sets : r.session_id = x.id
    /\ workout_plans # {}

\* C5: deleting an exercise that a workout template uses is answered 409 and
\* changes no table.
C5_UsedExerciseConflict ==
    (/\ req.route = RouteDeleteExercise
     /\ \E r \in pre.workout_template_exercises : r.exercise_id = req.input.id)
    => /\ res.status = 409
       /\ Snapshot = pre

\* A used exercise that a plan references too was asked to be deleted.
C5_Witness ==
    /\ req.route = RouteDeleteExercise
    /\ \E r \in pre.workout_template_exercises : r.exercise_id = req.input.id
    /\ \E r \in pre.workout_plan_exercises : r.exercise_id = req.input.id
    /\ \E x \in exercises : x.id = req.input.id

\* C9: a POST /api/plans that ends in an error leaves no plan row and no plan
\* exercise row behind.
C9_CreatePlanRollsBack ==
    (req.route = RouteCreatePlan /\ res.status # 200) =>
      /\ workout_plans = pre.workout_plans
      /\ workout_plan_exercises = pre.workout_plan_exercises

\* C10: whatever the interleaving of concurrent add, remove and move requests on
\* one template, once every request has completed, the template's sort_order
\* values are pairwise distinct and exactly 1..N.
C10_ConcurrentContiguous ==
    (\A r \in DOMAIN inflight : inflight[r].pc = "done") =>
      \A t \in TemplateIds :
        /\ Contiguous(workout_template_exercises, t)
        /\ \A a, b \in LinksOf(workout_template_exercises, t) :
             a.sort_order = b.sort_order => a = b

\* The names of templates and exercises the seed data knows, in lower case.
KnownTemplateNames == {"push", "legs"}
KnownExerciseNames == {"squat", "bench", "row"}
ToLower(n) ==
    CASE n \in {"A", "a"} -> "a"
      [] n \in {"B", "b"} -> "b"
      [] n \in {"Push", "push"} -> "push"
      [] n \in {"Legs", "legs"} -> "legs"
      [] n \in {"Squat", "squat"} -> "squat"
      [] n \in {"Bench", "bench"} -> "bench"
      [] n \in {"Row", "row"} -> "row"
      [] n \in {"Plan", "plan"} -> "plan"
      [] OTHER -> n

\* One of the failures C7 lists happened to the last import.
ImportFailureCause ==
    LET rows == req.input.rows
    IN \/ req.input.fault # 0
       \/ \E i \in DOMAIN rows :
            \/ rows[i].plan_name = ""
            \/ rows[i].base_template_name = ""
            \/ rows[i].exercise_name = ""
            \/ rows[i].sort_order \notin {"", "1", "2", "3"}
            \/ rows[i].target_sets \notin {"", "1", "2", "3"}
            \/ ToLower(rows[i].base_template_name) \notin KnownTemplateNames
            \/ ToLower(rows[i].exercise_name) \notin KnownExerciseNames
       \/ /\ req.input.mode = "create"
          /\ \E i \in DOMAIN rows : \E x \in pre.workout_plans :
               /\ ToLower(x.name) = ToLower(rows[i].plan_name)
               /\ \E t \in pre.workout_templates :
                    /\ t.id = x.base_template_id
                    /\ ToLower(t.name) = ToLower(rows[i].base_template_name)

\* C7: an import to which one of the listed failures happens is answered with an
\* error, and an import answered with an error has left workout_plans and
\* workout_plan_exercises exactly as they were.
C7_ImportAllOrNothing ==
    req.route = RouteImport =>
      /\ ImportFailureCause => res.status # 200
      /\ res.status # 200 =>
           /\ workout_plans = pre.workout_plans
           /\ workout_plan_exercises = pre.workout_plan_exercises

\* A real import in mode create failed on its second plan after the first plan
\* and its exercise had been inserted.
C7_Witness ==
    /\ req.route = RouteImport
    /\ res.status # 200
    /\ req.input.dry_run = "false"
    /\ req.input.mode = "create"
    /\ req.input.fault = 0
    /\ Len(req.input.rows) = 2
    /\ seq.plans > Max({0} \cup {x.id : x \in pre.workout_plans})
    /\ seq.planex > Max({0} \cup {x.id : x \in pre.workout_plan_exercises})
    /\ pre.workout_plans # {}

\* C8: an import with dry_run true leaves workout_plans and
\* workout_plan_exercises (and every other table) as they were, whatever the TSV
\* and the mode.
C8_DryRunChangesNothing ==
    (req.route = RouteImport /\ req.input.dry_run \in {"true", "undefined"}) => Snapshot = pre

\* A dry run in mode replace succeeded, reporting a plan created, a plan
\* overwritten and rows inserted; another overwrote an existing plan.
C8_Witness ==
    /\ req.route = RouteImport
    /\ req.input.dry_run = "undefined"
    /\ res.status = 200
    /\ res.body.plans_updated >= 1
    /\ res.body.exercises_inserted >= 1
    /\ \E x \in pre.workout_plans : \E i \in DOMAIN req.input.rows :
         ToLower(x.name) = ToLower(req.input.rows[i].plan_name)
    /\ pre.workout_plan_exercises # {}

\* C11: a request during which a database statement fails is answered 500 with
\* a JSON body carrying the stringified exception (here: logging one set, and
\* deleting a session).
C11_StatementFailureAnswers500 ==
    (req.route \in {RouteLogSet, RouteDeleteSession} /\ req.input.fault # 0) =>
      /\ res.status = 500
      /\ res.body.error = Stringified

\* C12: a request that addresses a session or a plan by an id no row has is
\* answered 404 and changes no table.
C12_AbsentRowNotFound ==
    /\ (/\ req.route \in {RouteDeleteSession, RouteRunner}
        /\ req.input.id # 0
        /\ \A x \in pre.workout_sessions : x.id # req.input.id)
       => (res.status = 404 /\ Snapshot = pre)
    /\ (/\ req.route = RouteDeletePlan
        /\ req.input.id # 0
        /\ \A x \in pre.workout_plans : x.id # req.input.id)
       => (res.status = 404 /\ Snapshot = pre)

\* The rows sq lists are exactly the rows S, by ascending sort_order.
ListedInOrder(sq, S) ==
    /\ {sq[i] : i \in DOMAIN sq} = S
    /\ Len(sq) = Cardinality(S)
    /\ \A i, j \in DOMAIN sq : i < j => sq[i].sort_order <= sq[j].sort_order

C15_DeleteSessionAtomic ==
    (req.route = RouteDeleteSession /\ req.input.id # 0) =>
      LET id == req.input.id
      IN IF res.status = 200
           THEN /\ \A x \in workout_sessions : x.id # id
                /\ \A r \in exercise_sets : r.session_id # id
                /\ workout_sessions = {x \in pre.workout_sessions : x.id # id}
                /\ exercise_sets = {r \in pre.exercise_sets : r.session_id # id}
           ELSE /\ workout_sessions = pre.workout_sessions
                /\ exercise_sets = pre.exercise_sets

\* A session with logged sets was deleted while another session kept its sets.
C15_Witness ==
    /\ req.route = RouteDeleteSession
    /\ res.status = 200
    /\ \E x \in pre.workout_sessions : x.id = req.input.id
    /\ \E r \in pre.exercise_sets : r.session_id = req.input.id
    /\ exercise_sets # {}
    /\ Cardinality(workout_sessions) = 1

\* The requests that hold a pool client.
CheckedOut == {r \in DOMAIN inflight : inflight[r].connects > inflight[r].releases}

\* C13: a handler takes at most one client and never gives back more than it
\* took; once it has finished it has given its client back exactly once,
\* whether it committed, rolled back after an error, or returned early from a
\* validation; so when every request has finished no client is checked out.
C13_ClientReleasedOnce ==
    /\ \A r \in DOMAIN inflight :
         /\ inflight[r].releases <= inflight[r].connects
         /\ inflight[r].connects <= 1
         /\ inflight[r].pc = "done" => inflight[r].releases = inflight[r].connects
         /\ inflight[r].pc \in {"check", "begin", "work", "dryrun", "commit", "catch", "finally"}
              => inflight[r].connects = 1 /\ inflight[r].releases = 0
    /\ (\A r \in DOMAIN inflight : inflight[r].pc = "done") => CheckedOut = {}

\* An import that returned early from a validation and a bulk save that rolled
\* back have both finished, each having taken and given back one client.
C13_Witness ==
    /\ Len(inflight) = 2
    /\ \A r \in DOMAIN inflight : inflight[r].pc = "done" /\ inflight[r].releases = 1
    /\ \E r \in DOMAIN inflight :
         inflight[r].kind = "import" /\ inflight[r].input = "invalid" /\ inflight[r].status = 400
    /\ \E r \in DOMAIN inflight : inflight[r].kind = "bulk" /\ inflight[r].status = 500

\* No two exercises of template t hold the same sort_order.
NoDuplicates(rows, t) ==
    \A a, b \in LinksOf(rows, t) : a.sort_order = b.sort_order => a = b

\* C16: a move's two updates are one transaction: between them no state that
\* other requests can read shows two exercises of the template with the same
\* sort_order, and a move that failed has left none behind.
C16_MoveIsOneTransaction ==
    \A r \in DOMAIN inflight :
      (inflight[r].kind = "move" /\ (inflight[r].pc = "update2" \/ inflight[r].status = 500))
        => NoDuplicates(workout_template_exercises, inflight[r].t)

\* The ids the seed data gives the named template and exercise (0: none), and
\* the integer a TSV cell stands for.
TemplateNamed(n) ==
    CASE ToLower(n) = "push" -> 1
      [] ToLower(n) = "legs" -> 2
      [] OTHER -> 0
ExerciseNamed(n) ==
    CASE ToLower(n) = "squat" -> 1
      [] ToLower(n) = "bench" -> 2
      [] ToLower(n) = "row" -> 3
      [] OTHER -> 0
TsvInt(c) ==
    CASE c = "" -> NULL
      [] c = "1" -> 1
      [] c = "2" -> 2
      [] c = "3" -> 3
      [] c = "50" -> 50
      [] OTHER -> NaN

\* C17: after a successful import in mode replace with dry_run false, every plan
\* that existed before is still there with its id; if the TSV names it (same
\* name ignoring case, same base template) its exercise rows are exactly the
\* TSV's rows for it, all of them new; if not, its exercise rows are as before.
C17_ReplaceOverwrites ==
    (/\ req.route = RouteImport
     /\ res.status = 200
     /\ req.input.mode = "replace"
     /\ req.input.dry_run = "false") =>
      \A x \in pre.workout_plans :
        LET rows == req.input.rows
            named == {i \in DOMAIN rows :
                        /\ ToLower(rows[i].plan_name) = ToLower(x.name)
                        /\ TemplateNamed(rows[i].base_template_name) = x.base_template_id}
            mine == {r \in workout_plan_exercises : r.plan_id = x.id}
        IN /\ x \in workout_plans
           /\ IF named = {}
                THEN mine = {r \in pre.workout_plan_exercises : r.plan_id = x.id}
                ELSE /\ Cardinality(mine) = Cardinality(named)
                     /\ \A i \in named : \E r \in mine :
                          /\ r.exercise_id = ExerciseNamed(rows[i].exercise_name)
                          /\ r.target_sets = TsvInt(rows[i].target_sets)
                          /\ r.target_weight = TsvInt(rows[i].target_weight)
                          /\ rows[i].sort_order # "" => r.sort_order = TsvInt(rows[i].sort_order)
                     /\ \A r \in mine : \A o \in pre.workout_plan_exercises : o.id # r.id

\* The day number of a date, and whether a day number is a Monday.
DayOf(c) == DaysFromCivil(c.y, c.m, c.d)
IsMonday(n) == (n + 3) % 7 = 0

\* C18: for a valid date d, GET /api/calendar?week_start=d answers with
\* week_start the Monday on or before d (d itself when d is a Monday) and with
\* items exactly the calendar entries planned from that Monday up to the
\* following Sunday, ordered by planned_on then id.
C18_WeekOfDate ==
    (req.route = RouteCalendar /\ req.input.week_start.iso) =>
      LET n == DayOf(req.input.week_start)
          w == DayOf(res.body.week_start)
          week == {wc \in workout_calendar : w <= DayOf(wc.planned_on)
                                             /\ DayOf(wc.planned_on) < w + 7}
          items == res.body.items
      IN /\ res.status = 200
         /\ IsMonday(w)
         /\ w <= n /\ n <= w + 6
         /\ IsMonday(n) => w = n
         /\ {items[i] : i \in DOMAIN items} = week
         /\ Len(items) = Cardinality(week)
         /\ \A i, j \in DOMAIN items :
              i < j => \/ DayOf(items[i].planned_on) < DayOf(items[j].planned_on)
                       \/ /\ DayOf(items[i].planned_on) = DayOf(items[j].planned_on)
                          /\ items[i].id < items[j].id

\* What a plan or a template lists: its (exercise, sort_order) pairs.
Listing(rows) == {<<r.exercise_id, r.sort_order>> : r \in rows}

\* C19: a plan made from template t has one exercise row per exercise the
\* template had at that moment, with the template's sort_order, target_sets 3,
\* target_reps 8 and no target_weight, and leaves the other plans' rows alone;
\* adding to, removing from or moving within a template afterwards changes no
\* plan and no plan exercise row.
C19_PlanCopiesTemplate ==
    /\ (req.route = RouteCreatePlan /\ res.status = 200) =>
         \E p \in workout_plans :
           LET mine == {r \in workout_plan_exercises : r.plan_id = p.id}
               source == {r \in pre.workout_template_exercises :
                            r.workout_template_id = req.input.base_template_id}
           IN /\ p \notin pre.workout_plans
              /\ workout_plans = pre.workout_plans \cup {p}
              /\ p.base_template_id = req.input.base_template_id
              /\ Listing(mine) = Listing(source)
              /\ Cardinality(mine) = Cardinality(source)
              /\ \A r \in mine :
                   r.target_sets = 3 /\ r.target_reps = 8 /\ r.target_weight = NULL
              /\ workout_plan_exercises \ mine = pre.workout_plan_exercises
    /\ req.route \in {RouteAdd, RouteRemove, RouteMove} =>
         /\ workout_plans = pre.workout_plans
         /\ workout_plan_exercises = pre.workout_plan_exercises

\* A template was edited after a plan of two exercises had been made from it:
\* the plan no longer lists what the template lists.
C19_Witness ==
    /\ req.route \in {RouteAdd, RouteRemove, RouteMove}
    /\ res.status = 200
    /\ workout_template_exercises # pre.workout_template_exercises
    /\ \E p \in workout_plans :
         /\ p.base_template_id = req.input.id
         /\ Cardinality({r \in workout_plan_exercises : r.plan_id = p.id}) = 2
         /\ Listing({r \in workout_plan_exercises : r.plan_id = p.id})
              # Listing(LinksOf(workout_template_exercises, req.input.id))

\* A step of the runner by Prev, Next or Finish, as C20 allows it.
C20_Step ==
    LET byHandler == runner' # runner /\ runner'.handler \in {"prev", "next", "finish"}
        current == runner.runnerExercises[runner.exerciseIndex + 1]
        nothing == /\ runner.saving = NoSave
                   /\ \A i \in DOMAIN runner.setsByExercise[current] :
                        /\ runner.setsByExercise[current][i].weight = ""
                        /\ runner.setsByExercise[current][i].reps = ""
                        /\ runner.setsByExercise[current][i].rpe = ""
        settled == runner.saving # NoSave /\ runner'.saving = NoSave
        saved == settled /\ req'.route = RouteBulk /\ res'.status = 200
        moved == \/ runner'.exerciseIndex # runner.exerciseIndex
                 \/ runner'.sessionId # runner.sessionId
    IN byHandler =>
         /\ moved => (saved \/ nothing)
         /\ (settled /\ ~saved) =>
              /\ runner'.exerciseIndex = runner.exerciseIndex
              /\ runner'.sessionId = runner.sessionId
              /\ runner'.saveStatusByExercise[runner.saving.exId] = "error"
         /\ (runner'.handler \in {"prev", "next"} /\ runner'.sessionId # NULL) =>
              /\ runner'.exerciseIndex >= 0
              /\ runner'.exerciseIndex <= Len(runner'.runnerExercises) - 1

\* C20: Prev, Next and Finish change the exercise index (Finish: reset the
\* runner) only after the current exercise's save succeeded or when there was
\* nothing to save; a failed save leaves index and session as they were and
\* sets the exercise's save status to "error"; under Prev and Next the index of
\* a running session stays within 0..(number of exercises - 1).
C20_SaveBeforeMove == [][C20_Step]_vars

\* C21: when "Yes, quit" has completed and the runner state has been reset,
\* the server holds no workout_sessions row and no exercise_sets row of the
\* session that was quit.
C21_QuitDeletesSession ==
    [][(runner'.handler = "quit" /\ runner' # runner) =>
         /\ runner'.sessionId = NULL
         /\ runner'.ls.sessionId = NULL
         /\ \A x \in workout_sessions' : x.id # runner.sessionId
         /\ \A r \in exercise_sets' : r.session_id # runner.sessionId]_vars

\* The rows of an exercise that the runner shows with a value, as (set_number,
\* weight, reps, rpe).
ShownSets(r, e) ==
    {[set_number |-> x.set_number, weight |-> x.weight, reps |-> x.reps, rpe |-> x.rpe] :
       x \in {r.setsByExercise[e][i] : i \in DOMAIN r.setsByExercise[e]} \
             {y \in {r.setsByExercise[e][i] : i \in DOMAIN r.setsByExercise[e]} :
                y.weight = "" /\ y.reps = "" /\ y.rpe = ""}}

\* The rows stored for a session's exercise, as the client would show them.
StoredSets(rows, s, e) ==
    {[set_number |-> x.set_number, weight |-> RowText(x.weight),
      reps |-> RowText(x.reps), rpe |-> RowText(x.rpe)] :
       x \in {y \in rows : y.session_id = s /\ y.exercise_id = e}}

\* A step that loads the page again, as C22 allows it while a session is
\* active, and a step of Finish, Quit or the workout select.
C22_Step ==
    /\ (runner'.handler = "mount" /\ runner.handler # "mount" /\ runner.sessionId # NULL) =>
         /\ runner'.sessionId = runner.sessionId
         /\ runner'.exerciseIndex = runner.exerciseIndex
         /\ \A i \in DOMAIN runner'.runnerExercises :
              ShownSets(runner', runner'.runnerExercises[i]) =
                StoredSets(exercise_sets, runner.sessionId, runner'.runnerExercises[i])
    /\ (runner'.handler = "mount" /\ runner.handler \in {"finish", "quit", "select"}
          /\ runner.sessionId = NULL) =>
         runner'.sessionId = NULL
    /\ (runner'.handler \in {"finish", "quit", "select"} /\ runner' # runner
          /\ runner'.sessionId = NULL) =>
         runner'.ls = NoKeys

\* C22: loading the page again while a session is active restores the same
\* sessionId and exerciseIndex, and the runner shows for every exercise the sets
\* stored on the server for that session; after Finish, Quit or a switch of
\* workout the three keys are removed and loading the page restores no session.
C22_ReloadRestores == [][C22_Step]_vars

\* The (set_number, weight, reps, rpe) a list of sets[] is stored as.
ListRows(L) ==
    {[set_number |-> x.set_number, weight |-> x.weight, reps |-> x.reps, rpe |-> x.rpe] :
       x \in {SetRow(0, 0, 0, L[i]) : i \in DOMAIN L}}

\* C23: when two POST /api/sets/bulk requests for one session and exercise have
\* both been answered 200, the stored rows of the pair are the list of one of
\* the two, not a union or a mixture.
C23_ConcurrentBulkOneList ==
    \A r1, r2 \in DOMAIN inflight :
      (/\ r1 # r2
       /\ inflight[r1].kind = "bulk" /\ inflight[r2].kind = "bulk"
       /\ inflight[r1].s = inflight[r2].s /\ inflight[r1].e = inflight[r2].e
       /\ inflight[r1].pc = "done" /\ inflight[r2].pc = "done"
       /\ inflight[r1].status = 200 /\ inflight[r2].status = 200) =>
        StoredSets(exercise_sets, inflight[r1].s, inflight[r1].e) \in
          {{[x EXCEPT !.weight = RowText(@), !.reps = RowText(@), !.rpe = RowText(@)] :
              x \in ListRows(inflight[r].L)} : r \in {r1, r2}}

\* C24: in every committed state each session with a plan_id refers to a plan
\* that exists, also when a session is started from a plan while the plan is
\* being deleted.
C24_SessionPlanExists ==
    \A x \in workout_sessions :
      x.plan_id # NULL => \E plan \in workout_plans : plan.id = x.plan_id

\* C25: no workout_template_exercises, workout_plan_exercises or
\* exercise_sets row refers to an exercise that is not there, and a DELETE
\* /api/exercises/:id that has removed an exercise found no template, plan or
\* set referring to it.
C25_NoDanglingExercise ==
    /\ \A r \in workout_template_exercises \cup workout_plan_exercises \cup exercise_sets :
         r.exercise_id \in ExerciseIds
    /\ (req.route = RouteDeleteExercise /\ pre.exercises # exercises) =>
         RefersTo(pre.workout_template_exercises, pre.workout_plan_exercises,
                  pre.exercise_sets, asInt(req.input.id)) = {}

\* The fields of an exercise that PATCH /api/exercises/:id can set.
ExerciseFields == {"name", "tracking_type", "time_unit", "info_url", "notes"}

\* C26: after PATCH /api/exercises/:id every field that the body leaves out
\* holds its stored value, in every exercise, and a request with an invalid
\* tracking_type or time_unit is answered 400 and changes nothing.
C26_PatchKeepsOmitted ==
    req.route = RoutePatchExercise =>
      /\ \A x \in exercises : \A y \in pre.exercises :
           x.id = y.id =>
             \A f \in ExerciseFields :
               (x.id # asInt(req.input.id) \/ req.input.body[f] = Absent) => x[f] = y[f]
      /\ {x.id : x \in exercises} = {y.id : y \in pre.exercises}
      /\ (\/ req.input.body.tracking_type \notin {Absent, JsStr("weight_reps"), JsStr("time")}
          \/ req.input.body.time_unit \notin {Absent, JsStr("seconds"), JsStr("minutes")}) =>
           (res.status = 400 /\ exercises = pre.exercises)

\* A step in which saveExercise returns true, as C27 allows it: either nothing
\* was sent because every row was blank, or the request was answered 200. The
\* client's rows are the ones the call read, the session the one it read.
C27_Step ==
    LET nothing == /\ runner.saving = NoSave /\ runner'.saving = NoSave
                   /\ runner'.handler \in {"prev", "next", "finish"}
                   /\ runner' # runner
        saved == /\ runner.saving # NoSave /\ runner'.saving = NoSave
                 /\ req'.route = RouteBulk /\ res'.status = 200
        s == IF nothing THEN runner.sessionId ELSE runner.saving.sessionId
        e == IF nothing THEN runner.runnerExercises[runner.exerciseIndex + 1]
                        ELSE runner.saving.exId
        sent == IF nothing THEN {} ELSE ListRows(runner.saving.sets)
        stored == {[set_number |-> x.set_number, weight |-> x.weight, reps |-> x.reps,
                    rpe |-> x.rpe] :
                     x \in {y \in exercise_sets' : y.session_id = s /\ y.exercise_id = e}}
    IN (nothing \/ saved) => stored = sent

\* C27: whenever saveExercise returns true for an exercise, the rows stored for
\* (active session, exercise) are exactly the client's rows of the exercise that
\* have a weight, reps or rpe value, with the same set_number; also when every
\* row of an exercise saved earlier has been emptied.
C27_SavedIsStored == [][C27_Step]_vars

\* The numbers of plans created, plans overwritten and plan-exercise rows
\* inserted between two states of the tables.
PlansCreatedBy(plansBefore, plansAfter) ==
    Cardinality({p \in plansAfter : p.id \notin {q.id : q \in plansBefore}})
PlansOverwrittenBy(plansBefore, planexBefore, planexAfter) ==
    Cardinality({p \in plansBefore :
                   {r \in planexBefore : r.plan_id = p.id}
                     # {r \in planexAfter : r.plan_id = p.id}})
RowsInsertedBy(planexBefore, planexAfter) ==
    Cardinality({r \in planexAfter : r.id \notin {q.id : q \in planexBefore}})

\* A real run that follows a dry run of the same TSV and mode, no statement
\* failing in either: the tables are those the dry run saw.
C28_RealAfterDry ==
    /\ req.route = RouteImport /\ req'.route = RouteImport
    /\ DryRunOf(req.input.dry_run) /\ ~DryRunOf(req'.input.dry_run)
    /\ req.input.fault = 0 /\ req'.input.fault = 0
    /\ req'.input.hasTsv = req.input.hasTsv
    /\ req'.input.headersOk = req.input.headersOk
    /\ req'.input.rows = req.input.rows
    /\ req'.input.mode = req.input.mode
    /\ pre.workout_plans = workout_plans
    /\ pre.workout_plan_exercises = workout_plan_exercises

\* A real run that has succeeded.
C28_RealRun ==
    /\ req'.route = RouteImport
    /\ ~DryRunOf(req'.input.dry_run)
    /\ res'.status = 200

C28_Step ==
    /\ C28_RealAfterDry =>
         /\ (res'.status = 200) <=> (res.status = 200)
         /\ res'.status = 200 =>
              /\ res'.body.plans_created = res.body.plans_created
              /\ res'.body.plans_updated = res.body.plans_updated
              /\ res'.body.exercises_inserted = res.body.exercises_inserted
    /\ C28_RealRun =>
         /\ res'.body.plans_created = PlansCreatedBy(workout_plans, workout_plans')
         /\ res'.body.plans_updated =
              PlansOverwrittenBy(workout_plans, workout_plan_exercises,
                                 workout_plan_exercises')
         /\ res'.body.exercises_inserted =
              RowsInsertedBy(workout_plan_exercises, workout_plan_exercises')

\* C28: for the same TSV, mode and database state a dry run and a real run of
\* POST /api/import/plans agree: one succeeds exactly when the other does, and
\* on success both report the same plans_created, plans_updated and
\* exercises_inserted, which are the numbers of plans the real run created, of
\* plans it overwrote and of plan-exercise rows it inserted.
C28_DryRunAgrees == [][C28_Step]_vars

=============================================================================
